---------------------------- MODULE Spec2Model ----------------------------
(***************************************************************************)
(* A model of the JPW converters of py_musicscript:                        *)
(*   jpw2ly.py   JpwFile.parse_voice_char_by_char, parse_multichar_token,  *)
(*               parse_bars, calculate_lily_duration_from_jpw, to_lilypond *)
(*   jpw2xml.py  JpwToMusicXml.parse_jpw_voice_section,                    *)
(*               parse_jpw_multichar_bar, calculate_beats_from_jpw,        *)
(*               beats_to_musicxml_duration, get_key_info,                 *)
(*               get_diatonic_pitch, jpw_pitch_to_musicxml                 *)
(*   midi2jpw.py calculate_jpw_modifiers_from_beats                        *)
(*   code(..mid2jpw).py  pitch_to_musicxml, duration_to_musicxml           *)
(*                                                                         *)
(* Text is a sequence of one-character strings. Indices into a line are    *)
(* the 0-based indices of the Python code (At(line, k) is line[k]).        *)
(* Beat values are dyadic rationals; they are kept as integer counts of    *)
(* 1/Den beat, which is exact for every value the model can produce.       *)
(***************************************************************************)
EXTENDS Integers, Sequences, FiniteSets, TLC

VARIABLES
    pc,                         \* which routine runs, and whether it is done
    voice_lines, line_idx, i,   \* the voice text and the cursor of the scan loop
    notes,                      \* jpw2ly: self.notes
    current_note, o_mod, u_count, h_count, dot,
    in_special, special_content, in_dollar,
    is_inside_slur,             \* jpw2ly: self.is_inside_slur; jpw2xml: is_inside_slur
    alternative_opened, alternative_closing_needed,
    bar_tokens,                 \* the values the local bar_token has taken, in order
    closing_line,               \* to_lilypond: the number of "}" of the closing line
    voice_events, current_note_attrs,   \* jpw2xml
    args, result                \* a call of one of the pure helper functions

vars == <<pc, voice_lines, line_idx, i, notes, current_note, o_mod, u_count,
          h_count, dot, in_special, special_content, in_dollar, is_inside_slur,
          alternative_opened, alternative_closing_needed, bar_tokens,
          closing_line, voice_events, current_note_attrs, args, result>>

---------------------------------------------------------------------------
(* Bounds of the model *)

\* longest voice line of the general scan
MaxLineLen == 3
\* longest voice line of the slur scan (small alphabet)
MaxSlurLen == 7
\* longest voice line of the barline scan
MaxBarLen == 5
\* most bar tokens handed to parse_bars in a row
MaxBars == 4
\* largest halving count (underscores) given to the duration functions
MaxU == 5
\* largest extension count (hyphens) given to the duration functions
MaxH == 5
\* most dots given to duration_to_musicxml
MaxDots == 2
\* most octave marks, either way
MaxOct == 2

---------------------------------------------------------------------------
(* Arithmetic helpers *)

Max2(a, b) == IF a >= b THEN a ELSE b

Abs(x) == IF x >= 0 THEN x ELSE -x

RECURSIVE Pow2(_)
Pow2(k) == IF k <= 0 THEN 1 ELSE 2 * Pow2(k - 1)

\* Beat values are counted in units of 1/Den beat. FracBits exceeds every
\* halving count that can occur, and 1/64 beat (the 64th, and 0.1875) is a unit.
FracBits == Max2(Max2(MaxU, Max2(MaxLineLen, Max2(MaxSlurLen, MaxBarLen))), 6) + 2

Den == Pow2(FracBits)

\* the beat value num/den (den a power of two dividing Den) in units
Beat(num, den) == (num * Den) \div den

\* Python's round() of the rational p/q (q > 0): to nearest, ties to even
RoundHalfEven(p, q) ==
    LET f == p \div q
        r == p - f * q
    IN  IF 2 * r < q THEN f
        ELSE IF 2 * r > q THEN f + 1
        ELSE IF f % 2 = 0 THEN f ELSE f + 1

\* abs(a - b) < 1/perOne, a and b in units
Within(a, b, perOne) == Abs(a - b) * perOne < Den

---------------------------------------------------------------------------
(* Duration resolvers *)

\* Seeded fault: the base 2 ** u in place of 0.5 ** u, so that underscores
\* lengthen a note
calculate_beats_doubling(underscore_count, hyphen_count, has_dot) ==
    LET current_beats == Den * Pow2(underscore_count) + hyphen_count * Den
    IN  IF has_dot THEN (current_beats * 3) \div 2 ELSE current_beats

\* jpw2xml.py calculate_beats_from_jpw: 1.0 * 0.5 ** u + h, times 1.5 when dotted.
\* jpw2ly.py computes the same value at the head of
\* calculate_lily_duration_from_jpw.
calculate_beats_from_jpw(underscore_count, hyphen_count, has_dot) ==
    LET current_beats == Den \div Pow2(underscore_count) + hyphen_count * Den
    IN  IF has_dot THEN (current_beats * 3) \div 2 ELSE current_beats

\* jpw2ly.py dur_map, in insertion order
lily_dur_map ==
    << [b |-> Beat(4, 1),  dur |-> "1"],   [b |-> Beat(3, 1),  dur |-> "2."],
       [b |-> Beat(2, 1),  dur |-> "2"],   [b |-> Beat(3, 2),  dur |-> "4."],
       [b |-> Beat(1, 1),  dur |-> "4"],   [b |-> Beat(3, 4),  dur |-> "8."],
       [b |-> Beat(1, 2),  dur |-> "8"],   [b |-> Beat(3, 8),  dur |-> "16."],
       [b |-> Beat(1, 4),  dur |-> "16"],  [b |-> Beat(3, 16), dur |-> "32."],
       [b |-> Beat(1, 8),  dur |-> "32"] >>

\* the first entry of a beats-keyed map within the tolerance 1/perOne, or 0
FirstWithin(map, beats, perOne) ==
    LET S == {k \in 1..Len(map) : Within(beats, map[k].b, perOne)}
    IN  IF S = {} THEN 0 ELSE CHOOSE k \in S : \A m \in S : k <= m

\* jpw2ly.py JpwFile.calculate_lily_duration_from_jpw
calculate_lily_duration_from_jpw(uc, hc, d) ==
    LET beats == calculate_beats_from_jpw(uc, hc, d)
        k == FirstWithin(lily_dur_map, beats, 1000)
    IN  IF k # 0 THEN lily_dur_map[k].dur ELSE "4"

\* jpw2xml.py DIVISIONS_PER_QUARTER
DIVISIONS_PER_QUARTER == 24

\* jpw2xml.py type_beats_map, in insertion order
type_beats_map ==
    << [name |-> "whole",   b |-> Beat(4, 1)],  [name |-> "half",    b |-> Beat(2, 1)],
       [name |-> "quarter", b |-> Beat(1, 1)],  [name |-> "eighth",  b |-> Beat(1, 2)],
       [name |-> "16th",    b |-> Beat(1, 4)],  [name |-> "32nd",    b |-> Beat(1, 8)],
       [name |-> "64th",    b |-> Beat(1, 16)] >>

\* Seeded fault: the loop body without its dotted and double-dotted candidates
ClosestTypeStepNoDots(acc, entry, beats) ==
    LET diff == Abs(4 * beats - 4 * entry.b)
    IN  IF diff < acc.min_diff
        THEN [min_diff |-> diff, best_match_type |-> entry.name, dots |-> 0]
        ELSE acc

\* one pass of the loop body of beats_to_musicxml_duration: the non-dotted,
\* the dotted and the double-dotted candidate of one type, in that order.
\* Differences are compared in quarter-units so that base * 1.75 is exact.
ClosestTypeStep(acc, entry, beats) ==
    LET diff == Abs(4 * beats - 4 * entry.b)
        a1 == IF diff < acc.min_diff
              THEN [min_diff |-> diff, best_match_type |-> entry.name, dots |-> 0]
              ELSE acc
        diff_dot == Abs(4 * beats - 6 * entry.b)
        a2 == IF diff_dot < a1.min_diff
              THEN [min_diff |-> diff_dot, best_match_type |-> entry.name, dots |-> 1]
              ELSE a1
        diff_dot2 == Abs(4 * beats - 7 * entry.b)
        a3 == IF diff_dot2 < a2.min_diff
              THEN [min_diff |-> diff_dot2, best_match_type |-> entry.name, dots |-> 2]
              ELSE a2
    IN  a3

RECURSIVE ClosestType(_, _, _)
ClosestType(acc, k, beats) ==
    IF k > Len(type_beats_map) THEN acc
    ELSE ClosestType(ClosestTypeStep(acc, type_beats_map[k], beats), k + 1, beats)

\* jpw2xml.py beats_to_musicxml_duration
beats_to_musicxml_duration(beats) ==
    LET xml_duration == RoundHalfEven(beats * DIVISIONS_PER_QUARTER, Den)
        start == [min_diff |-> Abs(4 * beats - 4 * Beat(1, 1)),
                  best_match_type |-> "quarter", dots |-> 0]
        best == ClosestType(start, 1, beats)
    IN  [xml_duration |-> xml_duration, xml_type |-> best.best_match_type,
         dots |-> best.dots]

\* midi2jpw.py dur_map, in insertion order
jpw_dur_map ==
    << [b |-> Beat(4, 1),  mods |-> <<0, 3, FALSE>>],
       [b |-> Beat(3, 1),  mods |-> <<0, 2, FALSE>>],
       [b |-> Beat(2, 1),  mods |-> <<0, 1, FALSE>>],
       [b |-> Beat(3, 2),  mods |-> <<0, 0, TRUE>>],
       [b |-> Beat(1, 1),  mods |-> <<0, 0, FALSE>>],
       [b |-> Beat(3, 4),  mods |-> <<1, 0, TRUE>>],
       [b |-> Beat(1, 2),  mods |-> <<1, 0, FALSE>>],
       [b |-> Beat(3, 8),  mods |-> <<2, 0, TRUE>>],
       [b |-> Beat(1, 4),  mods |-> <<2, 0, FALSE>>],
       [b |-> Beat(3, 16), mods |-> <<3, 0, TRUE>>],
       [b |-> Beat(1, 8),  mods |-> <<3, 0, FALSE>>] >>

\* midi2jpw.py calculate_jpw_modifiers_from_beats
calculate_jpw_modifiers_from_beats(beats) ==
    LET k == FirstWithin(jpw_dur_map, beats, 100)
        hyphens == RoundHalfEven(beats, Den) - 1
    IN  IF k # 0 THEN jpw_dur_map[k].mods
        ELSE IF beats > Beat(4, 1) /\ (beats % Den) * 100 < Den /\ hyphens >= 3
             THEN <<0, hyphens, FALSE>>
        ELSE <<0, 0, FALSE>>

\* code(..mid2jpw).py DIVISIONS / BASE_DURATION_DIVISIONS
BASE_DURATION_DIVISIONS == 4

\* code(..mid2jpw).py DURATION_MAP.get(key, 'quarter')
DURATION_MAP(key) ==
    CASE key = 1 -> "16th"
      [] key = 2 -> "eighth"
      [] key = 3 -> "eighth"
      [] key = 4 -> "quarter"
      [] key = 6 -> "quarter"
      [] key = 8 -> "half"
      [] key = 12 -> "half"
      [] key = 16 -> "whole"
      [] OTHER -> "quarter"

\* the dots loop of duration_to_musicxml on values scaled by S:
\* dot_increment /= 2.0; total_duration += dot_increment, num_dots times
RECURSIVE AddDots(_, _, _)
AddDots(total, dot_increment, n) ==
    IF n = 0 THEN total
    ELSE AddDots(total + dot_increment \div 2, dot_increment \div 2, n - 1)

\* code(..mid2jpw).py duration_to_musicxml, on the lengths of the two strings.
\* Divisions are scaled by S = 2^(underscores + dots), which keeps every
\* intermediate value exact.
duration_to_musicxml(num_underscores, num_dots) ==
    LET S == Pow2(num_underscores + num_dots)
        current_duration == (BASE_DURATION_DIVISIONS * S) \div Pow2(num_underscores)
        total == AddDots(current_duration, current_duration, num_dots)
        total_duration == RoundHalfEven(total, S)
        type_duration_lookup == RoundHalfEven(current_duration, S)
    IN  [total_duration |-> total_duration,
         note_type |-> DURATION_MAP(type_duration_lookup),
         has_dot |-> num_dots > 0, num_dots |-> num_dots]

---------------------------------------------------------------------------
(* Pitch resolvers *)

\* Python's None, as a pitch result
None == [is_none |-> TRUE]

\* jpw2xml.py MIDI_NOTE_NAMES[k][0], k counted from 0
MIDI_NOTE_NAMES == <<"C", "C", "D", "D", "E", "F", "F", "G", "G", "A", "A", "B">>

\* the natural-note map {'C':0,'D':2,'E':4,'F':5,'G':7,'A':9,'B':11} of
\* get_key_info (note_map) and of jpw_pitch_to_musicxml
note_map(name) ==
    CASE name = "C" -> 0 [] name = "D" -> 2 [] name = "E" -> 4 [] name = "F" -> 5
      [] name = "G" -> 7 [] name = "A" -> 9 [] name = "B" -> 11

\* str.upper() on the note letters
Upper(c) ==
    CASE c = "a" -> "A" [] c = "b" -> "B" [] c = "c" -> "C" [] c = "d" -> "D"
      [] c = "e" -> "E" [] c = "f" -> "F" [] c = "g" -> "G" [] OTHER -> c

NoteLetters == {"A", "B", "C", "D", "E", "F", "G", "a", "b", "c", "d", "e", "f", "g"}

\* jpw2xml.py fifths_map.get(k, 0)
fifths_map(k) ==
    CASE k = 0 -> 0 [] k = 7 -> 1 [] k = 2 -> 2 [] k = 9 -> 3 [] k = 4 -> 4
      [] k = 11 -> 5 [] k = 6 -> 6 [] k = 5 -> -1 [] k = 10 -> -2 [] k = 3 -> -3
      [] k = 8 -> -4 [] k = 1 -> -5 [] OTHER -> 0

\* jpw2xml.py get_key_info: re.match(r"([16])=([A-Ga-g])([#b])?", key_str) on
\* the characters of key_str
get_key_info(key_str) ==
    LET matched == /\ Len(key_str) >= 3
                   /\ key_str[1] \in {"1", "6"}
                   /\ key_str[2] = "="
                   /\ key_str[3] \in NoteLetters
        accidental == IF matched /\ Len(key_str) >= 4 /\ key_str[4] \in {"#", "b"}
                      THEN key_str[4] ELSE ""
        key_mode == IF matched /\ key_str[1] # "1" THEN 1 ELSE 0
        key_root_midi ==
            IF ~matched THEN 60
            ELSE 60 + note_map(Upper(key_str[3]))
                    + (IF accidental = "#" THEN 1 ELSE IF accidental = "b" THEN -1 ELSE 0)
        key_fifths == IF key_mode = 1 THEN fifths_map((key_root_midi + 3) % 12)
                      ELSE fifths_map(key_root_midi % 12)
    IN  [key_root_midi |-> key_root_midi, key_mode |-> key_mode,
         key_fifths |-> key_fifths]

major_intervals == <<0, 2, 4, 5, 7, 9, 11>>

minor_intervals == <<0, 2, 3, 5, 7, 8, 10>>

\* int(jpw_num_str) for a one-digit string
DigitValue(c) ==
    CASE c = "0" -> 0 [] c = "1" -> 1 [] c = "2" -> 2 [] c = "3" -> 3 [] c = "4" -> 4
      [] c = "5" -> 5 [] c = "6" -> 6 [] c = "7" -> 7 [] c = "8" -> 8 [] c = "9" -> 9

\* jpw2xml.py get_diatonic_pitch
get_diatonic_pitch(jpw_num_str, key_root_midi, key_mode) ==
    LET scale_intervals == IF key_mode = 0 THEN major_intervals ELSE minor_intervals
        jpw_idx == DigitValue(jpw_num_str) - 1
    IN  IF 0 <= jpw_idx /\ jpw_idx < 7
        THEN [is_none |-> FALSE, midi |-> key_root_midi + scale_intervals[jpw_idx + 1]]
        ELSE None

\* jpw2xml.py jpw_pitch_to_musicxml; alter and octave are the integers whose
\* str() the code returns
jpw_pitch_to_musicxml(jpw_num_str, jpw_oct_mod, jpw_prefix, key_root_midi, key_mode) ==
    IF jpw_num_str = "0" THEN None
    ELSE
    LET diatonic == get_diatonic_pitch(jpw_num_str, key_root_midi, key_mode)
    IN  IF diatonic.is_none THEN None
        ELSE
        LET diatonic_midi == diatonic.midi
            actual_midi == IF jpw_prefix = "#" THEN diatonic_midi + 1
                           ELSE IF jpw_prefix = "b" THEN diatonic_midi - 1
                           ELSE diatonic_midi
            base_diatonic_octave == diatonic_midi \div 12
            final_midi_octave == base_diatonic_octave + jpw_oct_mod
            note_in_octave == actual_midi % 12
            final_midi_note == final_midi_octave * 12 + note_in_octave
            musicxml_octave == final_midi_note \div 12
            note_index == final_midi_note % 12
            musicxml_step == MIDI_NOTE_NAMES[note_index + 1]
            natural_midi == final_midi_octave * 12 + note_map(musicxml_step)
            musicxml_alter == final_midi_note - natural_midi
        IN  [is_none |-> FALSE, step |-> musicxml_step, alter |-> musicxml_alter,
             octave |-> musicxml_octave]

\* code(..mid2jpw).py KEY_SIGNATURE_FIFTHS
KEY_SIGNATURE_FIFTHS == -1

\* code(..mid2jpw).py NOTE_MAP_F_MAJOR
NOTE_MAP_F_MAJOR ==
    [n \in {"1", "2", "3", "4", "5", "6", "7"} |->
        CASE n = "1" -> <<"F", 4>> [] n = "2" -> <<"G", 4>> [] n = "3" -> <<"A", 4>>
          [] n = "4" -> <<"B", 4>> [] n = "5" -> <<"C", 5>> [] n = "6" -> <<"D", 5>>
          [] n = "7" -> <<"E", 5>>]

\* Seeded fault: "#" always raises by a semitone, the B-flat of the key
\* signature is not cancelled
pitch_to_musicxml_always_sharp(note_num, accidental_str, octave_len) ==
    IF note_num \notin DOMAIN NOTE_MAP_F_MAJOR THEN None
    ELSE
    LET step == NOTE_MAP_F_MAJOR[note_num][1]
        octave == NOTE_MAP_F_MAJOR[note_num][2] + octave_len
        alt_acc ==
            IF accidental_str = "#" THEN <<1, "sharp">>
            ELSE IF accidental_str = "b" THEN <<-1, "flat">>
            ELSE IF step = "B" /\ KEY_SIGNATURE_FIFTHS = -1 THEN <<-1, "">>
            ELSE <<0, "">>
    IN  [is_none |-> FALSE, step |-> step, alter |-> alt_acc[1], octave |-> octave,
         accidental_type |-> alt_acc[2]]

\* code(..mid2jpw).py pitch_to_musicxml; octave_len is len(octave_str)
pitch_to_musicxml(note_num, accidental_str, octave_len) ==
    IF note_num \notin DOMAIN NOTE_MAP_F_MAJOR THEN None
    ELSE
    LET step == NOTE_MAP_F_MAJOR[note_num][1]
        base_octave == NOTE_MAP_F_MAJOR[note_num][2]
        octave == base_octave + octave_len
        is_b_note == (step = "B")
        key_has_b_flat == (KEY_SIGNATURE_FIFTHS = -1)
        alt_acc ==
            IF accidental_str = "#"
            THEN IF is_b_note /\ key_has_b_flat THEN <<0, "natural">>
                 ELSE <<1, "sharp">>
            ELSE IF accidental_str = "b" THEN <<-1, "flat">>
            ELSE IF is_b_note /\ key_has_b_flat THEN <<-1, "">>
            ELSE <<0, "">>
    IN  [is_none |-> FALSE, step |-> step, alter |-> alt_acc[1], octave |-> octave,
         accidental_type |-> alt_acc[2]]

---------------------------------------------------------------------------
(* Text helpers *)

\* line[k], k counted from 0 as in the code
At(line, k) == line[k + 1]

\* line[a:b]
Slice(line, a, b) == SubSeq(line, a + 1, b)

\* line.find(c, from): the first index >= from holding c, or -1
Find(line, c, from) ==
    LET S == {k \in from..(Len(line) - 1) : At(line, k) = c}
    IN  IF S = {} THEN -1 ELSE CHOOSE k \in S : \A m \in S : k <= m

Digits == {"0", "1", "2", "3", "4", "5", "6", "7", "8", "9"}

\* str.isdigit() and str.isspace() on one character
IsDigit(c) == c \in Digits

IsSpace(c) == c \in {" ", "\t"}

\* str.strip()
RECURSIVE Strip(_)
Strip(t) ==
    IF t = <<>> THEN t
    ELSE IF IsSpace(Head(t)) THEN Strip(Tail(t))
    ELSE IF IsSpace(t[Len(t)]) THEN Strip(SubSeq(t, 1, Len(t) - 1))
    ELSE t

\* re.match(r"\|\|?\[(\d+)\.?.*", t): "|[" or "||[" and then a digit
AltMatch(t) ==
    \/ Len(t) >= 3 /\ t[1] = "|" /\ t[2] = "[" /\ IsDigit(t[3])
    \/ Len(t) >= 4 /\ t[1] = "|" /\ t[2] = "|" /\ t[3] = "[" /\ IsDigit(t[4])

---------------------------------------------------------------------------
(* jpw2ly.py: bar tokens *)

\* JpwFile.parse_multichar_token(line, index, start_char): (token, consumed)
parse_multichar_token(line, index, start_char) ==
    LET line_len == Len(line)
        one == [token |-> <<start_char>>, consumed |-> 0]
    IN  IF start_char = "|"
        THEN IF index + 1 < line_len
             THEN IF At(line, index + 1) = "]"
                  THEN [token |-> <<"|", "]">>, consumed |-> 1]
                  ELSE IF At(line, index + 1) = "|"
                  THEN [token |-> <<"|", "|">>, consumed |-> 1]
                  ELSE IF At(line, index + 1) = ":"
                  THEN [token |-> <<"|", ":">>, consumed |-> 1]
                  ELSE IF At(line, index + 1) = "["
                          /\ AltMatch(Slice(line, index, line_len))
                  THEN LET end_alt == Find(line, ")", index)
                           token == IF end_alt # -1
                                    THEN Slice(line, index, end_alt + 1)
                                    ELSE Slice(line, index, line_len)
                       IN  [token |-> token, consumed |-> Len(token) - 1]
                  ELSE one
             ELSE one
        ELSE IF start_char = ":"
        THEN IF index + 1 < line_len /\ At(line, index + 1) = "|"
             THEN IF index + 2 < line_len /\ At(line, index + 2) = ":"
                  THEN [token |-> <<":", "|", ":">>, consumed |-> 2]
                  ELSE [token |-> <<":", "|">>, consumed |-> 1]
             ELSE one
        ELSE IF start_char = "["
        THEN IF index + 2 < line_len /\ Slice(line, index + 1, index + 3) = <<"|", "]">>
             THEN [token |-> <<"[", "|", "]">>, consumed |-> 2]
             ELSE one
        ELSE one

\* Seeded fault: parse_bars without its "|:" case, which then falls through to
\* the default "|"
parse_bars_without_forward(token0, opened, needed) ==
    LET token == Strip(token0)
        same(out) == [out |-> out, opened |-> opened, needed |-> needed]
    IN  IF token = <<"|">> THEN same("|")
        ELSE IF token = <<"|", "|">> THEN same("\\bar \"||\"")
        ELSE IF token = <<"[", "|", "]">> THEN same("\\bar \"[|]\"")
        ELSE IF token = <<":", "|", ":">> THEN same("\\bar \":|:\"")
        ELSE IF AltMatch(token)
        THEN IF ~opened
             THEN [out |-> "\\repeat volta 2 { \\alternative { {",
                   opened |-> TRUE, needed |-> 2]
             ELSE same("} {")
        ELSE IF token = <<":", "|">>
        THEN IF opened THEN same("\\bar \":|.\" }")
             ELSE [out |-> "\\bar \":|.\" ", opened |-> opened, needed |-> 0]
        ELSE IF token = <<"|", "]">>
        THEN IF opened THEN same("\\bar \"|.\" }")
             ELSE [out |-> "\\bar \"|.\"", opened |-> opened, needed |-> 0]
        ELSE same("|")

\* JpwFile.parse_bars(token) with self.alternative_opened = opened and
\* self.alternative_closing_needed = needed: the string returned and the two
\* fields afterwards
parse_bars(token0, opened, needed) ==
    LET token == Strip(token0)
        same(out) == [out |-> out, opened |-> opened, needed |-> needed]
    IN  IF token = <<"|">> THEN same("|")
        ELSE IF token = <<"|", "|">> THEN same("\\bar \"||\"")
        ELSE IF token = <<"[", "|", "]">> THEN same("\\bar \"[|]\"")
        ELSE IF token = <<"|", ":">>
        THEN [out |-> "\\bar \"|:\"", opened |-> opened, needed |-> 0]
        ELSE IF token = <<":", "|", ":">> THEN same("\\bar \":|:\"")
        ELSE IF AltMatch(token)
        THEN IF ~opened
             THEN [out |-> "\\repeat volta 2 { \\alternative { {",
                   opened |-> TRUE, needed |-> 2]
             ELSE same("} {")
        ELSE IF token = <<":", "|">>
        THEN IF opened THEN same("\\bar \":|.\" }")
             ELSE [out |-> "\\bar \":|.\" ", opened |-> opened, needed |-> 0]
        ELSE IF token = <<"|", "]">>
        THEN IF opened THEN same("\\bar \"|.\" }")
             ELSE [out |-> "\\bar \"|.\"", opened |-> opened, needed |-> 0]
        ELSE same("|")

---------------------------------------------------------------------------
(* jpw2ly.py: JpwFile.parse_voice_char_by_char *)

\* current_note = None
NoNote == [kind |-> "none"]

\* JpwFile.number_to_base_note; "None" is the dict's miss
number_to_base_note(n_char) ==
    CASE n_char = "1" -> "c" [] n_char = "2" -> "d" [] n_char = "3" -> "e"
      [] n_char = "4" -> "f" [] n_char = "5" -> "g" [] n_char = "6" -> "a"
      [] n_char = "7" -> "b" [] n_char = "0" -> "r" [] OTHER -> "None"

\* Note() with base_note set
NewNote(base) ==
    [kind |-> "note", base_note |-> base, octave |-> 0, lily_duration |-> "4",
     is_rest |-> FALSE, slur_start |-> FALSE, slur_end |-> FALSE,
     accent |-> FALSE, prall |-> FALSE]

\* an element of self.notes that is a str (a bar or a structural command)
BarItem(text) == [kind |-> "str", text |-> text]

\* The locals and fields that one pass of the while loop reads and writes
LyState ==
    [i |-> i, notes |-> notes, current_note |-> current_note, o_mod |-> o_mod,
     u_count |-> u_count, h_count |-> h_count, dot |-> dot,
     in_special |-> in_special, special_content |-> special_content,
     in_dollar |-> in_dollar, is_inside_slur |-> is_inside_slur,
     alternative_opened |-> alternative_opened,
     alternative_closing_needed |-> alternative_closing_needed,
     bar_tokens |-> bar_tokens]

\* Seeded fault: the computed duration is stored in the last element of
\* self.notes before the note is appended, instead of in the note itself
finalize_duration_on_previous(s) ==
    IF s.current_note # NoNote
    THEN LET d == calculate_lily_duration_from_jpw(s.u_count, s.h_count, s.dot)
             n == Len(s.notes)
             marked == IF n > 0 /\ s.notes[n].kind = "note"
                       THEN [s.notes EXCEPT ![n].lily_duration = d]
                       ELSE s.notes
         IN  [s EXCEPT !.notes = Append(marked, s.current_note),
                       !.current_note = NoNote]
    ELSE s

\* current_note = self._finalize_current_note(current_note, u_count, h_count, dot)
finalize_current_note(s) ==
    IF s.current_note # NoNote
    THEN [s EXCEPT !.notes = Append(@, [s.current_note EXCEPT !.lily_duration =
                        calculate_lily_duration_from_jpw(s.u_count, s.h_count, s.dot)]),
                   !.current_note = NoNote]
    ELSE s

\* Seeded fault: the dot flag is left out of the reset
ResetModsKeepingDot(s) == [s EXCEPT !.o_mod = 0, !.u_count = 0, !.h_count = 0]

\* o_mod, u_count, h_count, dot = 0, 0, 0, False
ResetMods(s) == [s EXCEPT !.o_mod = 0, !.u_count = 0, !.h_count = 0, !.dot = FALSE]

Advance(s) == [s EXCEPT !.i = @ + 1]

\* "$(" (lines 128-131)
LyDirectiveOpen(s) ==
    Advance([ResetMods(finalize_current_note(s)) EXCEPT
                 !.is_inside_slur = FALSE, !.in_dollar = TRUE])

\* inside "$(": skip to ")" (lines 132-134)
LyInDollar(s, char) ==
    Advance(IF char = ")" THEN [s EXCEPT !.in_dollar = FALSE] ELSE s)

\* "{" (lines 135-136)
LyDecorationOpen(s) ==
    Advance([s EXCEPT !.in_special = TRUE, !.special_content = <<>>])

ZhongYin == <<"Z", "h", "o", "n", "g", "Y", "i", "n">>

BoYin == <<"B", "o", "Y", "i", "n">>

\* inside "{": collect to "}" and apply to the active note (lines 137-144)
LyInSpecial(s, char) ==
    Advance(
        IF char = "}"
        THEN LET t == [s EXCEPT !.in_special = FALSE]
             IN  IF t.current_note # NoNote
                 THEN IF t.special_content = ZhongYin
                      THEN [t EXCEPT !.current_note.accent = TRUE]
                      ELSE IF t.special_content = BoYin
                      THEN [t EXCEPT !.current_note.prall = TRUE]
                      ELSE t
                 ELSE t
        ELSE [s EXCEPT !.special_content = Append(@, char)])

\* "(" (lines 147-151)
LySlurOpen(s) ==
    Advance([ResetMods(finalize_current_note(s)) EXCEPT !.is_inside_slur = TRUE])

\* ")" (lines 152-161)
LySlurClose(s) ==
    Advance(
        IF s.is_inside_slur
        THEN LET t == finalize_current_note(s)
                 n == Len(t.notes)
                 m == IF n > 0 /\ t.notes[n].kind = "note"
                      THEN [t EXCEPT !.notes[n].slur_end = TRUE]
                      ELSE t
             IN  [ResetMods(m) EXCEPT !.is_inside_slur = FALSE]
        ELSE s)

\* a bar character outside a slur (lines 169-175)
LyBar(s, line, char) ==
    LET t == [ResetMods(finalize_current_note(s)) EXCEPT !.is_inside_slur = FALSE]
        tc == parse_multichar_token(line, t.i, char)
        b == parse_bars(tc.token, t.alternative_opened, t.alternative_closing_needed)
    IN  [t EXCEPT !.i = @ + tc.consumed + 1,
                  !.bar_tokens = Append(@, tc.token),
                  !.alternative_opened = b.opened,
                  !.alternative_closing_needed = b.needed,
                  !.notes = Append(@, BarItem(b.out))]

\* a digit (lines 178-184, then line 209)
LyDigit(s, char) ==
    LET t == ResetMods(finalize_current_note(s))
        base == number_to_base_note(char)
    IN  Advance(
          IF base = "None" THEN t
          ELSE [t EXCEPT !.current_note =
                   [NewNote(base) EXCEPT !.is_rest = (base = "r"),
                                         !.slur_start = t.is_inside_slur]])

\* Seeded fault: an unknown character clears current_note without finalizing it
LyModifierDroppingNote(s, char) ==
    IF char = "'"
    THEN Advance([s EXCEPT !.o_mod = @ + 1, !.current_note.octave = s.o_mod + 1])
    ELSE IF char = ","
    THEN Advance([s EXCEPT !.o_mod = @ - 1, !.current_note.octave = s.o_mod - 1])
    ELSE IF char = "_" THEN Advance([s EXCEPT !.u_count = @ + 1])
    ELSE IF char = "-" THEN Advance([s EXCEPT !.h_count = @ + 1])
    ELSE IF char = "." THEN Advance([s EXCEPT !.dot = TRUE])
    ELSE IF ~IsSpace(char)
    THEN [ResetMods([s EXCEPT !.current_note = NoNote]) EXCEPT !.is_inside_slur = FALSE]
    ELSE Advance(s)

\* any other character while a note is active (lines 187-198, then line 209)
LyModifier(s, char) ==
    IF char = "'"
    THEN Advance([s EXCEPT !.o_mod = @ + 1, !.current_note.octave = s.o_mod + 1])
    ELSE IF char = ","
    THEN Advance([s EXCEPT !.o_mod = @ - 1, !.current_note.octave = s.o_mod - 1])
    ELSE IF char = "_" THEN Advance([s EXCEPT !.u_count = @ + 1])
    ELSE IF char = "-" THEN Advance([s EXCEPT !.h_count = @ + 1])
    ELSE IF char = "." THEN Advance([s EXCEPT !.dot = TRUE])
    ELSE IF ~IsSpace(char)
    THEN \* finalize, i -= 1, then i += 1: the character is processed again
         [ResetMods(finalize_current_note(s)) EXCEPT !.is_inside_slur = FALSE]
    ELSE Advance(s)

\* whitespace while no note is active (lines 201-203, then line 209)
LySpace(s) ==
    Advance([ResetMods(finalize_current_note(s)) EXCEPT !.is_inside_slur = FALSE])

\* one pass of the body of "while i < line_len" (lines 125-210)
LyIteration(s, line) ==
    LET char == At(line, s.i)
        line_len == Len(line)
        is_bar_char == char \in {"|", ":", "["}
    IN  IF char = "$" /\ s.i + 1 < line_len /\ At(line, s.i + 1) = "("
        THEN LyDirectiveOpen(s)
        ELSE IF s.in_dollar THEN LyInDollar(s, char)
        ELSE IF char = "{" THEN LyDecorationOpen(s)
        ELSE IF s.in_special THEN LyInSpecial(s, char)
        ELSE IF char = "(" THEN LySlurOpen(s)
        ELSE IF char = ")" THEN LySlurClose(s)
        ELSE IF is_bar_char /\ s.is_inside_slur THEN Advance(s)
        ELSE IF is_bar_char THEN LyBar(s, line, char)
        ELSE IF IsDigit(char) THEN LyDigit(s, char)
        ELSE IF s.current_note # NoNote THEN LyModifier(s, char)
        ELSE IF IsSpace(char) THEN LySpace(s)
        ELSE Advance(s)

\* the code after the while loop (lines 213-215)
LyLineEnd(s) ==
    [ResetMods(finalize_current_note(s)) EXCEPT !.is_inside_slur = FALSE]

---------------------------------------------------------------------------
(* jpw2xml.py: JpwToMusicXml.parse_jpw_voice_section *)

\* the reset value of current_note_attrs; jpw_num "None" is Python's None
EmptyAttrs ==
    [jpw_num |-> "None", oct_mod |-> 0, prefix |-> "", u_count |-> 0, h_count |-> 0,
     dot |-> FALSE, slur_start |-> FALSE, slur_end |-> FALSE]

\* The locals that one pass of the while loop reads and writes
XmlState ==
    [i |-> i, voice_events |-> voice_events, attrs |-> current_note_attrs,
     is_inside_slur |-> is_inside_slur, bar_tokens |-> bar_tokens]

\* finalize_and_add_event(current_note_attrs) (lines 238-251)
finalize_and_add_event(s) ==
    IF s.attrs.jpw_num # "None"
    THEN LET beats == calculate_beats_from_jpw(s.attrs.u_count, s.attrs.h_count,
                                               s.attrs.dot)
             event == IF s.attrs.jpw_num = "0"
                      THEN [type |-> "rest", beats |-> beats]
                      ELSE [type |-> "note", beats |-> beats,
                            jpw_num |-> s.attrs.jpw_num, oct_mod |-> s.attrs.oct_mod,
                            prefix |-> s.attrs.prefix,
                            slur_start |-> s.attrs.slur_start,
                            slur_end |-> s.attrs.slur_end]
         IN  [s EXCEPT !.voice_events = Append(@, event), !.attrs = EmptyAttrs]
    ELSE s

\* JpwToMusicXml.parse_jpw_multichar_bar(line, index, start_char)
parse_jpw_multichar_bar(line, index, start_char) ==
    LET line_len == Len(line)
        one == [token |-> <<start_char>>, consumed |-> 0]
    IN  IF start_char = "|"
        THEN IF index + 1 < line_len
             THEN IF At(line, index + 1) = "]"
                  THEN [token |-> <<"|", "]">>, consumed |-> 1]
                  ELSE IF At(line, index + 1) = "|"
                  THEN [token |-> <<"|", "|">>, consumed |-> 1]
                  ELSE IF At(line, index + 1) = ":"
                  THEN [token |-> <<"|", ":">>, consumed |-> 1]
                  ELSE IF At(line, index + 1) = "["
                          /\ AltMatch(Slice(line, index, line_len))
                  THEN [token |-> Slice(line, index, line_len),
                        consumed |-> line_len - index - 1]
                  ELSE one
             ELSE one
        ELSE IF start_char = ":"
        THEN IF index + 1 < line_len /\ At(line, index + 1) = "|"
             THEN IF index + 2 < line_len /\ At(line, index + 2) = ":"
                  THEN [token |-> <<":", "|", ":">>, consumed |-> 2]
                  ELSE [token |-> <<":", "|">>, consumed |-> 1]
             ELSE one
        ELSE IF start_char = "["
        THEN IF index + 2 < line_len /\ Slice(line, index + 1, index + 3) = <<"|", "]">>
             THEN [token |-> <<"[", "|", "]">>, consumed |-> 2]
             ELSE one
        ELSE one

\* line[i:].startswith(two characters)
StartsWith2(line, k, c1, c2) ==
    k + 1 < Len(line) /\ At(line, k) = c1 /\ At(line, k + 1) = c2

\* a bar character: lex the token and append the barline event
\* (lines 289-290 and 300-301; the caller has finalized an active note)
XmlBar(s, line, char) ==
    LET tc == parse_jpw_multichar_bar(line, s.i, char)
    IN  [s EXCEPT !.i = @ + tc.consumed + 1,
                  !.bar_tokens = Append(@, tc.token),
                  !.voice_events = Append(@, [type |-> "barline", style |-> tc.token])]

\* Seeded fault: the closing "}" is searched from the start of the line
XmlSkipDecorationFromStart(s, line) ==
    LET end_dec == Find(line, "}", 0)
    IN  [s EXCEPT !.i = (IF end_dec # -1 THEN end_dec ELSE @) + 1]

\* "{": jump to the closing "}" if there is one (lines 284-286, 302-303)
XmlSkipDecoration(s, line) ==
    LET end_dec == Find(line, "}", s.i)
    IN  [s EXCEPT !.i = (IF end_dec # -1 THEN end_dec ELSE @) + 1]

\* a digit (lines 266-269)
XmlDigit(s, char) ==
    LET t == finalize_and_add_event(s)
    IN  Advance(IF t.is_inside_slur
                THEN [t EXCEPT !.attrs.jpw_num = char, !.attrs.slur_start = TRUE,
                               !.is_inside_slur = FALSE]
                ELSE [t EXCEPT !.attrs.jpw_num = char])

\* any other character while a note is active (lines 270-293)
XmlModifier(s, line, char) ==
    IF char = "'" THEN Advance([s EXCEPT !.attrs.oct_mod = @ + 1])
    ELSE IF char = "," THEN Advance([s EXCEPT !.attrs.oct_mod = @ - 1])
    ELSE IF char = "_" THEN Advance([s EXCEPT !.attrs.u_count = @ + 1])
    ELSE IF char = "-" THEN Advance([s EXCEPT !.attrs.h_count = @ + 1])
    ELSE IF char = "." THEN Advance([s EXCEPT !.attrs.dot = TRUE])
    ELSE IF char = "#" THEN Advance([s EXCEPT !.attrs.prefix = "#"])
    ELSE IF char = "b" THEN Advance([s EXCEPT !.attrs.prefix = "b"])
    ELSE IF char = "("
    THEN Advance([finalize_and_add_event(s) EXCEPT !.is_inside_slur = TRUE])
    ELSE IF char = ")"
    THEN Advance(finalize_and_add_event([s EXCEPT !.attrs.slur_end = TRUE]))
    ELSE IF char = "{" THEN XmlSkipDecoration(s, line)
    ELSE IF char \in {"|", ":", "[", "]"}
    THEN XmlBar(finalize_and_add_event(s), line, char)
    ELSE \* finalize, i -= 1, then i += 1: the character is processed again
         finalize_and_add_event(s)

\* ")" while no note is active (lines 295-298)
XmlSlurCloseNoNote(s) ==
    LET n == Len(s.voice_events)
        t == IF n > 0 /\ s.voice_events[n].type = "note"
             THEN [s EXCEPT !.voice_events[n].slur_end = TRUE]
             ELSE s
    IN  Advance([t EXCEPT !.is_inside_slur = FALSE])

\* one pass of the body of "while i < line_len" (lines 256-306)
XmlIteration(s, line) ==
    LET char == At(line, s.i)
        line_len == Len(line)
    IN  IF StartsWith2(line, s.i, "/", "/")
        THEN [s EXCEPT !.i = line_len]          \* break
        ELSE IF StartsWith2(line, s.i, "$", "(")
        THEN LET end_cmd == Find(line, ")", s.i)
             IN  [s EXCEPT !.i = IF end_cmd # -1 THEN end_cmd + 1 ELSE line_len]
        ELSE IF IsSpace(char) THEN Advance(s)
        ELSE IF IsDigit(char) THEN XmlDigit(s, char)
        ELSE IF s.attrs.jpw_num # "None" THEN XmlModifier(s, line, char)
        ELSE IF char = "(" THEN Advance([s EXCEPT !.is_inside_slur = TRUE])
        ELSE IF char = ")" THEN XmlSlurCloseNoNote(s)
        ELSE IF char \in {"|", ":", "[", "]"} THEN XmlBar(s, line, char)
        ELSE IF char = "{" THEN XmlSkipDecoration(s, line)
        ELSE Advance(s)

\* the code after the while loop (lines 308-309)
XmlLineEnd(s) == [finalize_and_add_event(s) EXCEPT !.is_inside_slur = FALSE]

\* build_musicxml: the <repeat direction=...> of a barline event (lines 441-444)
RepeatDirection(style) ==
    IF style = <<"|", ":">> THEN "forward"
    ELSE IF style = <<":", "|">> THEN "backward"
    ELSE "none"

---------------------------------------------------------------------------
(* The state machine *)

\* the voice line being scanned
line == voice_lines[line_idx + 1]

parserVars == <<notes, current_note, o_mod, u_count, h_count, dot, in_special,
                special_content, in_dollar, is_inside_slur, alternative_opened,
                alternative_closing_needed, bar_tokens>>

SetLy(t) ==
    /\ i' = t.i
    /\ notes' = t.notes
    /\ current_note' = t.current_note
    /\ o_mod' = t.o_mod
    /\ u_count' = t.u_count
    /\ h_count' = t.h_count
    /\ dot' = t.dot
    /\ in_special' = t.in_special
    /\ special_content' = t.special_content
    /\ in_dollar' = t.in_dollar
    /\ is_inside_slur' = t.is_inside_slur
    /\ alternative_opened' = t.alternative_opened
    /\ alternative_closing_needed' = t.alternative_closing_needed
    /\ bar_tokens' = t.bar_tokens

\* jpw2ly: one pass of the while loop of parse_voice_char_by_char
LyStep ==
    /\ pc = "jpw2ly"
    /\ line_idx < Len(voice_lines)
    /\ i < Len(line)
    /\ SetLy(LyIteration(LyState, line))
    /\ UNCHANGED <<pc, voice_lines, line_idx, closing_line, voice_events,
                   current_note_attrs, args, result>>

\* jpw2ly: the end of a voice line, and on to the next line
LyEndOfLine ==
    /\ pc = "jpw2ly"
    /\ line_idx < Len(voice_lines)
    /\ i >= Len(line)
    /\ SetLy([LyLineEnd(LyState) EXCEPT !.i = 0])
    /\ line_idx' = line_idx + 1
    /\ UNCHANGED <<pc, voice_lines, closing_line, voice_events,
                   current_note_attrs, args, result>>

\* jpw2ly: to_lilypond after the parse (or after the calls of parse_bars):
\* the line of closing braces (lines 347-349)
ToLilypond ==
    /\ \/ pc = "jpw2ly" /\ line_idx = Len(voice_lines)
       \/ pc = "parse_bars"
    /\ closing_line' = IF alternative_closing_needed > 0
                       THEN alternative_closing_needed ELSE 0
    /\ pc' = "ly_done"
    /\ UNCHANGED <<voice_lines, line_idx, i, parserVars, voice_events,
                   current_note_attrs, args, result>>

\* bar tokens as parse_voice_char_by_char can hand them to parse_bars
BarTokens ==
    { <<"|">>, <<"|", "|">>, <<"[", "|", "]">>, <<"|", ":">>, <<":", "|", ":">>,
      <<"|", "[", "1">>, <<"|", "[", "2", ".">>, <<":", "|">>, <<"|", "]">>,
      <<":">>, <<"[">> }

\* jpw2ly: parse_bars on the next bar token, its result appended to self.notes
\* (lines 172-174)
ParseBarsCall ==
    /\ pc = "parse_bars"
    /\ Len(bar_tokens) < MaxBars
    /\ \E token \in BarTokens :
          LET b == parse_bars(token, alternative_opened, alternative_closing_needed)
          IN  /\ bar_tokens' = Append(bar_tokens, token)
              /\ alternative_opened' = b.opened
              /\ alternative_closing_needed' = b.needed
              /\ notes' = Append(notes, BarItem(b.out))
    /\ UNCHANGED <<pc, voice_lines, line_idx, i, current_note, o_mod, u_count,
                   h_count, dot, in_special, special_content, in_dollar,
                   is_inside_slur, closing_line, voice_events, current_note_attrs,
                   args, result>>

SetXml(t) ==
    /\ i' = t.i
    /\ voice_events' = t.voice_events
    /\ current_note_attrs' = t.attrs
    /\ is_inside_slur' = t.is_inside_slur
    /\ bar_tokens' = t.bar_tokens

xmlUnchanged == <<notes, current_note, o_mod, u_count, h_count, dot, in_special,
                  special_content, in_dollar, alternative_opened,
                  alternative_closing_needed, closing_line, args, result>>

\* jpw2xml: one pass of the while loop of parse_jpw_voice_section
XmlStep ==
    /\ pc = "jpw2xml"
    /\ line_idx < Len(voice_lines)
    /\ i < Len(line)
    /\ SetXml(XmlIteration(XmlState, line))
    /\ UNCHANGED <<pc, voice_lines, line_idx>>
    /\ UNCHANGED xmlUnchanged

\* jpw2xml: the end of a voice line, and on to the next line
XmlEndOfLine ==
    /\ pc = "jpw2xml"
    /\ line_idx < Len(voice_lines)
    /\ i >= Len(line)
    /\ SetXml([XmlLineEnd(XmlState) EXCEPT !.i = 0])
    /\ line_idx' = line_idx + 1
    /\ UNCHANGED <<pc, voice_lines>>
    /\ UNCHANGED xmlUnchanged

\* the parse of either converter has returned
Parsed == pc \in {"jpw2ly", "jpw2xml", "ly_done"} /\ line_idx = Len(voice_lines)

---------------------------------------------------------------------------
(* Calls of the pure helpers *)

callUnchanged == <<pc, voice_lines, line_idx, i, parserVars, closing_line,
                   voice_events, current_note_attrs, args>>

CallCalculateBeats ==
    /\ pc = "duration"
    /\ result' = [fn |-> "calculate_beats_from_jpw",
                  beats |-> calculate_beats_from_jpw(args.u_count, args.h_count, args.dot)]
    /\ UNCHANGED callUnchanged

CallLilyDuration ==
    /\ pc = "duration"
    /\ result' = [fn |-> "calculate_lily_duration_from_jpw",
                  dur |-> calculate_lily_duration_from_jpw(args.u_count, args.h_count,
                                                           args.dot)]
    /\ UNCHANGED callUnchanged

\* build_musicxml, lines 400 and 425: the beats of an event, then the lookup
CallBeatsToMusicxml ==
    /\ pc = "duration"
    /\ LET beats == calculate_beats_from_jpw(args.u_count, args.h_count, args.dot)
           r == beats_to_musicxml_duration(beats)
       IN  result' = [fn |-> "beats_to_musicxml_duration", beats |-> beats,
                      xml_duration |-> r.xml_duration, xml_type |-> r.xml_type,
                      dots |-> r.dots]
    /\ UNCHANGED callUnchanged

CallJpwModifiers ==
    /\ pc = "duration"
    /\ LET beats == calculate_beats_from_jpw(args.u_count, args.h_count, args.dot)
       IN  result' = [fn |-> "calculate_jpw_modifiers_from_beats", beats |-> beats,
                      mods |-> calculate_jpw_modifiers_from_beats(beats)]
    /\ UNCHANGED callUnchanged

CallDurationToMusicxml ==
    /\ pc = "duration"
    /\ LET r == duration_to_musicxml(args.u_count, args.num_dots)
       IN  result' = [fn |-> "duration_to_musicxml",
                      total_duration |-> r.total_duration, note_type |-> r.note_type,
                      has_dot |-> r.has_dot, num_dots |-> r.num_dots]
    /\ UNCHANGED callUnchanged

\* build_musicxml, lines 347 and 389
CallJpwPitch ==
    /\ pc = "pitch"
    /\ LET key == get_key_info(args.key_str)
           r == jpw_pitch_to_musicxml(args.jpw_num, args.oct_mod, args.prefix,
                                      key.key_root_midi, key.key_mode)
       IN  result' = [fn |-> "jpw_pitch_to_musicxml", pitch |-> r]
    /\ UNCHANGED callUnchanged

\* create_musicxml, line 206; octave_str is "g" * octave_len
CallPitchToMusicxml ==
    /\ pc = "pitch"
    /\ args.oct_mod >= 0
    /\ result' = [fn |-> "pitch_to_musicxml",
                  pitch |-> pitch_to_musicxml(args.jpw_num, args.prefix, args.oct_mod)]
    /\ UNCHANGED callUnchanged

---------------------------------------------------------------------------
(* Initial states *)

\* every line of at most n characters of alphabet
Lines(alphabet, n) == UNION {[1..k -> alphabet] : k \in 0..n}

NoCall == [fn |-> "none"]

InitParserVars ==
    /\ line_idx = 0 /\ i = 0
    /\ notes = <<>> /\ current_note = NoNote
    /\ o_mod = 0 /\ u_count = 0 /\ h_count = 0 /\ dot = FALSE
    /\ in_special = FALSE /\ special_content = <<>> /\ in_dollar = FALSE
    /\ is_inside_slur = FALSE
    /\ alternative_opened = FALSE /\ alternative_closing_needed = 0
    /\ bar_tokens = <<>> /\ closing_line = 0
    /\ voice_events = <<>> /\ current_note_attrs = EmptyAttrs

InitScan(alphabet, n) ==
    /\ pc \in {"jpw2ly", "jpw2xml"}
    /\ voice_lines \in {<<l>> : l \in Lines(alphabet, n)}
    /\ InitParserVars
    /\ args = NoCall /\ result = NoCall

ParseAlphabet ==
    {"1", "0", "8", " ", "(", ")", "|", ":", "_", "-", ".", "'", ",", "$", "{", "}", "?"}

SlurAlphabet == {"1", " ", "(", ")"}

BarAlphabet == {"1", " ", "(", "|", ":", "[", "]"}

InitParse == InitScan(ParseAlphabet, MaxLineLen)

InitSlur == InitScan(SlurAlphabet, MaxSlurLen)

InitBarline == InitScan(BarAlphabet, MaxBarLen)

InitBars ==
    /\ pc = "parse_bars"
    /\ voice_lines = <<>>
    /\ InitParserVars
    /\ args = NoCall /\ result = NoCall

InitDuration ==
    /\ pc = "duration"
    /\ voice_lines = <<>>
    /\ InitParserVars
    /\ args \in [u_count : 0..MaxU, h_count : 0..MaxH, dot : BOOLEAN,
                 num_dots : 0..MaxDots]
    /\ result = NoCall

KeyStrings ==
    {<<m, "=", r>> : m \in {"1", "6"}, r \in {"A", "B", "C", "D", "E", "F", "G"}}
    \cup {<<m, "=", r, a>> : m \in {"1", "6"}, r \in {"A", "B", "E", "F"},
                             a \in {"#", "b", "B"}}
    \cup {<<"2", "=", "C">>}

InitPitch ==
    /\ pc = "pitch"
    /\ voice_lines = <<>>
    /\ InitParserVars
    /\ args \in [jpw_num : {"0", "1", "2", "3", "4", "5", "6", "7", "8"},
                 oct_mod : (-MaxOct)..MaxOct, prefix : {"", "#", "b"},
                 key_str : KeyStrings]
    /\ result = NoCall

ScanNext == LyStep \/ LyEndOfLine \/ ToLilypond \/ XmlStep \/ XmlEndOfLine

BarsNext == ParseBarsCall \/ ToLilypond

DurationNext ==
    \/ CallCalculateBeats \/ CallLilyDuration \/ CallBeatsToMusicxml
    \/ CallJpwModifiers \/ CallDurationToMusicxml

PitchNext == CallJpwPitch \/ CallPitchToMusicxml

\* the two scanners on every line over the general alphabet
Spec == InitParse /\ [][ScanNext]_vars

\* the two scanners on longer lines of digits, blanks and slur brackets
SpecSlur == InitSlur /\ [][ScanNext]_vars

\* the two scanners on lines of digits, blanks, "(" and bar characters
SpecBarline == InitBarline /\ [][ScanNext]_vars

\* parse_bars on every sequence of bar tokens, then to_lilypond
SpecBars == InitBars /\ [][BarsNext]_vars

\* the duration resolvers on every (u, h, dot)
SpecDuration == InitDuration /\ [][DurationNext]_vars

\* the pitch resolvers on every degree, accidental, octave mark count and key
SpecPitch == InitPitch /\ [][PitchNext]_vars

---------------------------------------------------------------------------
(* Vocabulary of the properties *)

\* the event sequence of the converter that runs
Events == IF pc = "jpw2xml" THEN voice_events ELSE notes

IsNoteEvent(e) == IF pc = "jpw2xml" THEN e.type = "note" ELSE e.kind = "note"

\* a scan loop is about to process the character At(line, i)
Scanning ==
    pc \in {"jpw2ly", "jpw2xml"} /\ line_idx < Len(voice_lines) /\ i < Len(line)

DegreeDigits == {"1", "2", "3", "4", "5", "6", "7"}

\* l is "(d1 d2 ... dn)": n >= 2 degree digits, one blank between neighbours
IsSlurGroup(l) ==
    /\ Len(l) >= 5 /\ Len(l) % 2 = 1
    /\ l[1] = "(" /\ l[Len(l)] = ")"
    /\ \A k \in 2..(Len(l) - 1) :
          IF k % 2 = 0 THEN l[k] \in DegreeDigits ELSE l[k] = " "

\* a forward-repeat / backward-repeat barline event
IsForwardRepeat(e) ==
    IF pc = "jpw2xml"
    THEN e.type = "barline" /\ RepeatDirection(e.style) = "forward"
    ELSE e.kind = "str" /\ e.text = "\\bar \"|:\""

IsBackwardRepeat(e) ==
    IF pc = "jpw2xml"
    THEN e.type = "barline" /\ RepeatDirection(e.style) = "backward"
    ELSE e.kind = "str" /\ e.text \in {"\\bar \":|.\" ", "\\bar \":|.\" }"}

\* the events hold a forward repeat and, later, a backward repeat
ForwardThenBackward ==
    \E x, y \in 1..Len(Events) :
        x < y /\ IsForwardRepeat(Events[x]) /\ IsBackwardRepeat(Events[y])

---------------------------------------------------------------------------
(* C1: slur balance *)

\* C1: when the parse of a line "(d1 d2 ... dn)", n >= 2, has returned, the
\* events of either parser are exactly n notes, of which only the first has
\* slur_start and only the last has slur_end.
\* jpw2ly.py sets slur_start on every note begun while is_inside_slur holds
\* (line 184), so "(1 1)" gives two slur_start notes there.
C1_SlurBalance ==
    (Parsed /\ IsSlurGroup(voice_lines[1])) =>
        LET n == (Len(voice_lines[1]) - 1) \div 2
        IN  /\ Len(Events) = n
            /\ \A k \in 1..Len(Events) :
                  /\ IsNoteEvent(Events[k])
                  /\ Events[k].slur_start = (k = 1)
                  /\ Events[k].slur_end = (k = n)

---------------------------------------------------------------------------
(* C2: barline sequencing *)

\* the tokens that the bar lexers classify as an alternative opener
IsVoltaToken(t) == AltMatch(Strip(t))

\* "|:" was lexed as a bar token and ":|" as a later one, and no token lexed
\* so far opens an alternative
LexedForwardThenBackward ==
    /\ \E a, b \in 1..Len(bar_tokens) :
          a < b /\ bar_tokens[a] = <<"|", ":">> /\ bar_tokens[b] = <<":", "|">>
    /\ \A a \in 1..Len(bar_tokens) : ~IsVoltaToken(bar_tokens[a])

\* C2 (as amended): whenever the bar lexer has returned the token "|:" and
\* later the token ":|", and no alternative opener, the events hold a
\* forward-repeat barline and later a backward-repeat barline, and no closing
\* marker is owed: alternative_closing_needed is 0, and so is the number of
\* closing braces to_lilypond adds.
C2_BarlineSequencing ==
    LexedForwardThenBackward =>
        /\ ForwardThenBackward
        /\ alternative_closing_needed = 0
        /\ closing_line = 0

\* C2, a run of it: jpw2ly has rendered a line with both tokens
C2_Witness ==
    /\ pc = "ly_done"
    /\ LexedForwardThenBackward
    /\ ForwardThenBackward

\* the line holds the characters "|:" and, after them, ":|", neither of them
\* inside a ":|:"
ContainsForwardThenBackward(l) ==
    \E p, q \in 1..(Len(l) - 1) :
        /\ p + 2 <= q
        /\ l[p] = "|" /\ l[p + 1] = ":"
        /\ p > 1 => l[p - 1] # ":"
        /\ l[q] = ":" /\ l[q + 1] = "|"
        /\ q + 2 <= Len(l) => l[q + 2] # ":"

\* the line holds no "|[N"
ContainsNoVolta(l) ==
    \A p \in 1..(Len(l) - 2) : ~(l[p] = "|" /\ l[p + 1] = "[" /\ IsDigit(l[p + 2]))

\* C2 (as stated): any line that contains "|:" and later ":|" and no volta
\* opener parses to a forward-repeat barline then a backward-repeat barline,
\* with no closing marker owed.  "||::|" is lexed as "||", ":", ":|", and
\* jpw2ly skips the bar characters of "(|::|".
C2_AnyInput ==
    (Parsed /\ ContainsForwardThenBackward(voice_lines[1])
            /\ ContainsNoVolta(voice_lines[1])) =>
        /\ ForwardThenBackward
        /\ alternative_closing_needed = 0
        /\ closing_line = 0

---------------------------------------------------------------------------
(* C3: duration round trip *)

\* the beats that a note type with dots stands for
NotatedBeats(xml_type, dots) ==
    LET k == CHOOSE k \in 1..Len(type_beats_map) : type_beats_map[k].name = xml_type
        base == type_beats_map[k].b
    IN  CASE dots = 0 -> base
          [] dots = 1 -> (base * 3) \div 2
          [] dots = 2 -> (base * 7) \div 4

\* the beats that a reverse lookup's answer resolves to again
ReResolved ==
    IF result.fn = "beats_to_musicxml_duration"
    THEN NotatedBeats(result.xml_type, result.dots)
    ELSE calculate_beats_from_jpw(result.mods[1], result.mods[2], result.mods[3])

IsReverseLookup ==
    result.fn \in {"beats_to_musicxml_duration", "calculate_jpw_modifiers_from_beats"}

\* the beat values that a reverse lookup's answer can stand for: a note type
\* with at most two dots for the type lookup; a key of the reverse table of
\* midi2jpw.py, or a whole number of beats above 4, for the modifier lookup
Expressible(beats) ==
    IF result.fn = "beats_to_musicxml_duration"
    THEN \E k \in 1..Len(type_beats_map), dots \in 0..2 :
             beats = NotatedBeats(type_beats_map[k].name, dots)
    ELSE \/ \E k \in 1..Len(jpw_dur_map) : beats = jpw_dur_map[k].b
         \/ beats > Beat(4, 1) /\ beats % Den = 0

\* C3 (as amended): for (u, h, d) in range whose beat value the lookup's
\* answer can stand for, the answer resolves to exactly that beat value again:
\* through beats_to_musicxml_duration when the value is that of a note type
\* whole..64th with zero, one or two dots, and through
\* calculate_jpw_modifiers_from_beats when the value is one of 4, 3, 2, 1.5, 1,
\* 0.75, 0.5, 0.375, 0.25, 0.1875, 0.125 or a whole number above 4.
C3_RoundTripExpressible ==
    (IsReverseLookup /\ Expressible(result.beats)) => ReResolved = result.beats

\* C3, a run of it: a dotted eighth through the type lookup
C3_Witness ==
    /\ result.fn = "beats_to_musicxml_duration"
    /\ args.u_count = 1 /\ args.h_count = 0 /\ args.dot
    /\ result.beats = Beat(3, 4)
    /\ result.xml_type = "eighth" /\ result.dots = 1

\* C3 (as stated): for every (u, h, d) in range the answer of either reverse
\* lookup resolves to within 0.01 of the beat value.  u = 2, h = 1 is 1.25
\* beats, which both lookups answer with a plain quarter.
C3_RoundTripAll ==
    IsReverseLookup => Within(ReResolved, result.beats, 100)

---------------------------------------------------------------------------
(* C4: accidental against the key signature *)

\* the arguments are degree 4 with "#" in F major
SharpFourthInF ==
    /\ args.jpw_num = "4" /\ args.prefix = "#"
    /\ (result.fn = "jpw_pitch_to_musicxml" =>
            get_key_info(args.key_str).key_fifths = -1
            /\ get_key_info(args.key_str).key_mode = 0)

\* C4: degree 4 with "#" in F major resolves to B with alter 0 in both pitch
\* resolvers, and every pitch either resolver returns has alter -1, 0 or 1.
C4_KeyAwareAccidental ==
    (result.fn \in {"jpw_pitch_to_musicxml", "pitch_to_musicxml"}
        /\ ~result.pitch.is_none) =>
        /\ result.pitch.alter \in {-1, 0, 1}
        /\ SharpFourthInF => (result.pitch.step = "B" /\ result.pitch.alter = 0)

\* C4, a run of it: the fixed-key resolver has cancelled the flat of the key
C4_Witness ==
    /\ result.fn = "pitch_to_musicxml"
    /\ SharpFourthInF
    /\ result.pitch.step = "B" /\ result.pitch.accidental_type = "natural"

---------------------------------------------------------------------------
(* C5: duration monotonicity *)

\* C5: with h and the dot fixed, more underscores never give more beats, and
\* with u and the dot fixed, more hyphens never give fewer beats.
C5_Monotonic ==
    result.fn = "calculate_beats_from_jpw" =>
        /\ \A u2 \in (args.u_count + 1)..(MaxU + 1) :
              calculate_beats_from_jpw(u2, args.h_count, args.dot) <= result.beats
        /\ \A h2 \in (args.h_count + 1)..(MaxH + 1) :
              calculate_beats_from_jpw(args.u_count, h2, args.dot) >= result.beats

\* C5, a run of it: the beats of a dotted note with two underscores and a hyphen
C5_Witness ==
    /\ result.fn = "calculate_beats_from_jpw"
    /\ args.u_count = 2 /\ args.h_count = 1 /\ args.dot
    /\ result.beats = Beat(15, 8)

---------------------------------------------------------------------------
(* C6: the standard note types *)

\* the note type and the Lilypond duration of u underscores
StandardType(u) ==
    CASE u = 0 -> "quarter" [] u = 1 -> "eighth" [] u = 2 -> "16th" [] u = 3 -> "32nd"

StandardLily(u, dotted) ==
    LET base == CASE u = 0 -> "4" [] u = 1 -> "8" [] u = 2 -> "16" [] u = 3 -> "32"
    IN  IF dotted THEN base \o "." ELSE base

\* 0.5 ** u beats, times 1.5 when dotted
StandardBeats(u, dotted) ==
    IF dotted THEN (Beat(1, Pow2(u)) * 3) \div 2 ELSE Beat(1, Pow2(u))

\* C6: for u in 0..3, h = 0 and at most one dot, every duration resolver gives
\* 0.5 ** u beats, times 1.5 when dotted, and the type quarter, eighth, 16th or
\* 32nd with as many dots.
\* duration_to_musicxml of the regex converter counts in 4 divisions per
\* quarter: three underscores round to 0 divisions and to the default type
\* "quarter", and a dotted 16th rounds to 2 divisions, half a beat.
C6_StandardTypeLookup ==
    (args.u_count <= 3 /\ args.h_count = 0) =>
        /\ result.fn = "beats_to_musicxml_duration" =>
              /\ result.beats = StandardBeats(args.u_count, args.dot)
              /\ result.xml_type = StandardType(args.u_count)
              /\ result.dots = (IF args.dot THEN 1 ELSE 0)
        /\ result.fn = "calculate_lily_duration_from_jpw" =>
              result.dur = StandardLily(args.u_count, args.dot)
        /\ (result.fn = "duration_to_musicxml" /\ args.num_dots <= 1) =>
              /\ result.total_duration * Den =
                    BASE_DURATION_DIVISIONS * StandardBeats(args.u_count, args.num_dots = 1)
              /\ result.note_type = StandardType(args.u_count)
              /\ result.num_dots = args.num_dots

---------------------------------------------------------------------------
(* C7: whitespace and the pending note *)

ModifierChars == {"_", "-", ".", "'", ","}

\* the loop is about to process a modifier character that follows whitespace
ModifierAfterSpace ==
    /\ Scanning
    /\ i >= 1
    /\ At(line, i) \in ModifierChars
    /\ IsSpace(At(line, i - 1))

\* C7: whitespace finalizes the pending note and resets the accumulators, so
\* the step that processes a modifier character after whitespace changes
\* neither a pending note nor the modifier counts nor the events.
\* Neither scanner finalizes on whitespace while a note is pending: "1 _" is
\* half a beat in both.
C7_WhitespaceFinalizes ==
    [][ModifierAfterSpace =>
          UNCHANGED <<notes, current_note, o_mod, u_count, h_count, dot,
                      voice_events, current_note_attrs>>]_vars

---------------------------------------------------------------------------
(* C8: unmatched slur close *)

\* no "(" before position k of the line is still without its ")"
NoOpenSlurBefore(l, k) ==
    ~\E p \in 0..(k - 1) :
        At(l, p) = "(" /\ \A q \in (p + 1)..(k - 1) : At(l, q) # ")"

\* C8: the step that processes a ")" with no unclosed "(" before it on the
\* line appends no event and changes no pending or appended event.
\* jpw2xml.py sets slur_end on a pending note at every ")" and appends it
\* (lines 281-283): "1)" gives a note with slur_end.
C8_UnmatchedCloseDropped ==
    [][(Scanning /\ At(line, i) = ")" /\ NoOpenSlurBefore(line, i)) =>
          UNCHANGED <<notes, current_note, voice_events, current_note_attrs>>]_vars

---------------------------------------------------------------------------
(* C9: structural braces *)

\* the opening and the closing braces in a string that parse_bars returns
OpeningBraces(text) ==
    CASE text = "\\repeat volta 2 { \\alternative { {" -> 3
      [] text = "} {" -> 1
      [] OTHER -> 0

ClosingBraces(text) ==
    CASE text = "} {" -> 1
      [] text = "\\bar \":|.\" }" -> 1
      [] text = "\\bar \"|.\" }" -> 1
      [] OTHER -> 0

RECURSIVE BraceBalance(_)
BraceBalance(items) ==
    IF items = <<>> THEN 0
    ELSE LET e == Head(items)
         IN  (IF e.kind = "str" THEN OpeningBraces(e.text) - ClosingBraces(e.text) ELSE 0)
             + BraceBalance(Tail(items))

\* C9: at the end of input the closing braces that to_lilypond adds are as
\* many as parse_bars opened and has not closed.
\* The first alternative opener emits three opening braces and sets
\* alternative_closing_needed to 2.
C9_BracesBalance ==
    pc = "ly_done" => closing_line = BraceBalance(notes)

---------------------------------------------------------------------------
(* C10: appended events *)

\* the step keeps every appended event where and as it is
KeepsAppended(old, new) ==
    \A k \in 1..Len(old) : k <= Len(new) /\ new[k] = old[k]

\* the step keeps every appended event, except that the last one, a note whose
\* slur_end is not set, may have it set by a ")"
KeepsAppendedButSlurEnd(old, new) ==
    \A k \in 1..Len(old) :
        /\ k <= Len(new)
        /\ \/ new[k] = old[k]
           \/ /\ k = Len(old)
              /\ Scanning /\ At(line, i) = ")"
              /\ IsNoteEvent(old[k]) /\ ~old[k].slur_end
              /\ new[k] = [old[k] EXCEPT !.slur_end = TRUE]

\* C10 (as amended): no step of either parser removes or reorders an appended
\* event, or changes any field of it other than slur_end; a step that
\* processes ")" may set slur_end of the last appended event, a note, and
\* nothing else of it.
C10_AppendedEventsKept ==
    [][KeepsAppendedButSlurEnd(notes, notes')
       /\ KeepsAppendedButSlurEnd(voice_events, voice_events')]_vars

\* C10, a run of it: in "1()" the ")" has set slur_end of the note that the
\* "(" had appended
C10_Witness ==
    /\ voice_lines = << <<"1", "(", ")">> >>
    /\ line_idx = 0 /\ i = 3
    /\ Len(Events) = 1 /\ Events[1].slur_end

\* C10 (as stated): no step changes any field, slur_end included, of an event
\* that is already appended.
C10_EventsImmutable ==
    [][KeepsAppended(notes, notes') /\ KeepsAppended(voice_events, voice_events')]_vars

---------------------------------------------------------------------------
(* code(..mid2jpw).py: create_musicxml, the scan of one measure string *)

\* the length of the run of character c in str from the 0-based index from
RECURSIVE RunLen(_, _, _)
RunLen(str, from, c) ==
    IF from < Len(str) /\ At(str, from) = c THEN 1 + RunLen(str, from + 1, c) ELSE 0

\* the length of the run of digits in str from the 0-based index from (\d+)
RECURSIVE DigitRun(_, _)
DigitRun(str, from) ==
    IF from < Len(str) /\ IsDigit(At(str, from)) THEN 1 + DigitRun(str, from + 1) ELSE 0

\* int() of a string of digits
RECURSIVE IntOf(_)
IntOf(ds) ==
    IF ds = <<>> THEN 0 ELSE 10 * IntOf(SubSeq(ds, 1, Len(ds) - 1)) + DigitValue(ds[Len(ds)])

\* [1-7]
NoteDigits == {"1", "2", "3", "4", "5", "6", "7"}

\* note_pattern.match(str, pos): the alternative that matched (0: no match),
\* the groups that the caller reads and match.end()
NoMatch == [alt |-> 0]

note_pattern_match(str, pos) ==
    LET n == Len(str)
        c == At(str, pos)
        has_acc == c \in {"#", "b"} /\ pos + 1 < n /\ At(str, pos + 1) \in NoteDigits
        d == IF has_acc THEN pos + 1 ELSE pos
        tail(from, alt, extra) ==
            \* (g*) (_*) (\.*) for a note, (_*) (\.*) for a rest
            LET g == IF alt = 1 THEN RunLen(str, from, "g") ELSE 0
                u == RunLen(str, from + g, "_")
                k == RunLen(str, from + g + u, ".")
            IN  [alt |-> alt, accidental_str |-> extra, note_num |-> At(str, from - 1),
                 octave_len |-> g, num_underscores |-> u, num_dots |-> k,
                 end |-> from + g + u + k]
        nd == DigitRun(str, pos + 2)
        close_t == Find(str, ")", pos + 3 + nd)
        close_d == Find(str, ")", pos + 2)
    IN  IF pos >= n THEN NoMatch
        ELSE IF At(str, d) \in NoteDigits
        THEN tail(d + 1, 1, IF has_acc THEN c ELSE "")
        ELSE IF /\ c = "{" /\ pos + 1 < n /\ At(str, pos + 1) = "("
                /\ nd >= 1 /\ pos + 2 + nd < n /\ At(str, pos + 2 + nd) = "}"
                /\ close_t # -1
        THEN [alt |-> 2, ratio_digit_str |-> Slice(str, pos + 2, pos + 2 + nd),
              tuplet_content |-> Slice(str, pos + 3 + nd, close_t), end |-> close_t + 1]
        ELSE IF c = "$" /\ pos + 1 < n /\ At(str, pos + 1) = "(" /\ close_d # -1
        THEN [alt |-> 3, directive_content |-> Slice(str, pos + 2, close_d),
              end |-> close_d + 1]
        ELSE IF c = "0" THEN tail(pos + 1, 4, "")
        ELSE NoMatch

\* the <note> element of a matched note or rest (lines 200-226, 255-274);
\* tuplet "none" stands for the absence of <time-modification> and <tuplet>
NoteElement(m) ==
    LET dur == duration_to_musicxml(m.num_underscores, m.num_dots)
        p == pitch_to_musicxml(m.note_num, m.accidental_str, m.octave_len)
    IN  IF m.alt = 1
        THEN [type |-> "note", note_num |-> m.note_num, step |-> p.step,
              alter |-> p.alter, octave |-> p.octave,
              duration |-> dur.total_duration, note_type |-> dur.note_type,
              num_dots |-> dur.num_dots,
              tuplet |-> "none", actual_notes |-> 0, normal_notes |-> 0]
        ELSE [type |-> "rest", note_num |-> "0",
              duration |-> dur.total_duration, note_type |-> dur.note_type,
              num_dots |-> dur.num_dots,
              tuplet |-> "none", actual_notes |-> 0, normal_notes |-> 0]

\* the inner while loop of a tuplet (lines 243-250): notes_in_tuplet_matches
RECURSIVE InnerMatches(_, _)
InnerMatches(tuplet_content, inner_pos) ==
    IF inner_pos >= Len(tuplet_content) THEN <<>>
    ELSE LET inner_match == note_pattern_match(tuplet_content, inner_pos)
         IN  IF inner_match.alt # 0
             THEN <<inner_match>> \o InnerMatches(tuplet_content, inner_match.end)
             ELSE InnerMatches(tuplet_content, inner_pos + 1)

\* the for loop over notes_in_tuplet_matches (lines 252-281): the elements added
RECURSIVE TupletElements(_, _, _)
TupletElements(matches, k, actual_notes) ==
    IF k > Len(matches) THEN <<>>
    ELSE LET is_first == (k = 1)
             is_last == (k = Len(matches))
             tuplet_type == IF is_first THEN "start"
                            ELSE IF is_last THEN "stop" ELSE "continue"
             rest_of == TupletElements(matches, k + 1, actual_notes)
         IN  IF matches[k].alt \in {1, 4}
             THEN <<[NoteElement(matches[k]) EXCEPT !.tuplet = tuplet_type,
                                                   !.actual_notes = actual_notes,
                                                   !.normal_notes = 2]>> \o rest_of
             ELSE rest_of

\* a matched tuplet (lines 229-281)
TupletGroup(m) ==
    LET actual_notes == IF m.ratio_digit_str # <<>> THEN IntOf(m.ratio_digit_str) ELSE 3
    IN  TupletElements(InnerMatches(m.tuplet_content, 0), 1, actual_notes)

\* one pass of the while loop over measure_str (lines 193-298): the elements
\* added to the measure and the new pos
RegexIteration(measure_str, pos) ==
    LET match == note_pattern_match(measure_str, pos)
    IN  IF match.alt = 0 THEN [added |-> <<>>, pos |-> pos + 1]
        ELSE IF match.alt \in {1, 4}
        THEN [added |-> <<NoteElement(match)>>, pos |-> match.end]
        ELSE IF match.alt = 2
        THEN [added |-> TupletGroup(match), pos |-> match.end]
        ELSE [added |-> <<[type |-> "direction", words |-> match.directive_content]>>,
              pos |-> match.end]

regexUnchanged == <<pc, voice_lines, parserVars, closing_line, current_note_attrs,
                    args, result>>

\* create_musicxml: one pass of the while loop; voice_lines holds
\* parsed_data['voice_measures'], i is pos, voice_events the elements added
RegexStep ==
    /\ pc = "regex"
    /\ line_idx < Len(voice_lines)
    /\ i < Len(line)
    /\ LET r == RegexIteration(line, i)
       IN  /\ voice_events' = voice_events \o r.added
           /\ i' = r.pos
    /\ UNCHANGED line_idx
    /\ UNCHANGED regexUnchanged

\* create_musicxml: the end of a measure string, and on to the next one
RegexEndOfMeasure ==
    /\ pc = "regex"
    /\ line_idx < Len(voice_lines)
    /\ i >= Len(line)
    /\ i' = 0
    /\ line_idx' = line_idx + 1
    /\ UNCHANGED voice_events
    /\ UNCHANGED regexUnchanged

\* parse_jpwabc, lines 91 and 104: a measure string is stripped and not empty
IsMeasure(m) == m # <<>> /\ ~IsSpace(m[1]) /\ ~IsSpace(m[Len(m)])

---------------------------------------------------------------------------
(* The scan of a whole line, from the state at the head of the line *)

\* jpw2ly: the locals at the head of the first line (lines 114-123)
LyStart ==
    [i |-> 0, notes |-> <<>>, current_note |-> NoNote, o_mod |-> 0,
     u_count |-> 0, h_count |-> 0, dot |-> FALSE,
     in_special |-> FALSE, special_content |-> <<>>,
     in_dollar |-> FALSE, is_inside_slur |-> FALSE,
     alternative_opened |-> FALSE, alternative_closing_needed |-> 0,
     bar_tokens |-> <<>>]

\* jpw2ly: the while loop of lines 124-210 and the code after it
RECURSIVE RunLy(_, _)
RunLy(s, l) == IF s.i >= Len(l) THEN LyLineEnd(s) ELSE RunLy(LyIteration(s, l), l)

\* jpw2xml: the locals at the head of the first line (lines 234-254)
XmlStart ==
    [i |-> 0, voice_events |-> <<>>, attrs |-> EmptyAttrs,
     is_inside_slur |-> FALSE, bar_tokens |-> <<>>]

\* jpw2xml: the while loop of lines 255-306 and the code after it
RECURSIVE RunXml(_, _)
RunXml(s, l) == IF s.i >= Len(l) THEN XmlLineEnd(s) ELSE RunXml(XmlIteration(s, l), l)

\* create_musicxml: the while loop of lines 193-298, the elements it adds
RECURSIVE RunRegex(_, _)
RunRegex(measure_str, pos) ==
    IF pos >= Len(measure_str) THEN <<>>
    ELSE LET r == RegexIteration(measure_str, pos)
         IN  r.added \o RunRegex(measure_str, r.pos)

\* the events that the converter pc makes of the one line l
EventsOf(l) ==
    CASE pc \in {"jpw2ly", "ly_done"} -> RunLy(LyStart, l).notes
      [] pc = "jpw2xml" -> RunXml(XmlStart, l).voice_events
      [] pc = "regex" -> RunRegex(l, 0)

---------------------------------------------------------------------------
(* Further families of input *)

\* the three scanners on one line or measure string
InitScan3(alphabet, n) ==
    /\ pc \in {"jpw2ly", "jpw2xml", "regex"}
    /\ voice_lines \in {<<l>> : l \in Lines(alphabet, n)}
    /\ pc = "regex" => IsMeasure(voice_lines[1])
    /\ InitParserVars
    /\ args = NoCall /\ result = NoCall

UnknownAlphabet == {"1", "2", "0", "?", " ", "(", ")", "_", "#", "{", "}", "$"}

InitUnknown == InitScan3(UnknownAlphabet, MaxLineLen)

\* the length of the content of a tuplet
MaxTupletLen == 3

TupletAlphabet == {"1", "0", "_", " ", "?"}

\* the opening of a tuplet, well-formed or with the ratio digit missing or garbled
TupletMarkers ==
    { <<"{", "(", "3", "}">>, <<"{", "(", "5", "}">>, <<"{", "(", "}">>,
      <<"{", "(", "?", "}">> }

\* a tuplet and what may follow it in the measure
TupletMeasures ==
    { m \o c \o t : m \in TupletMarkers, c \in Lines(TupletAlphabet, MaxTupletLen),
                    t \in { <<")">>, <<")", "2">>, <<>> } }

InitTuplet ==
    /\ pc = "regex"
    /\ voice_lines \in {<<l>> : l \in {m \in TupletMeasures : IsMeasure(m)}}
    /\ InitParserVars
    /\ args = NoCall /\ result = NoCall

RegexNext == RegexStep \/ RegexEndOfMeasure

Scan3Next == ScanNext \/ RegexNext

\* the three scanners on lines with unknown characters
SpecUnknown == InitUnknown /\ [][Scan3Next]_vars

\* create_musicxml on measures that open a tuplet
SpecTuplet == InitTuplet /\ [][RegexNext]_vars

\* create_musicxml has gone through every measure string
RegexDone == pc = "regex" /\ line_idx = Len(voice_lines)

---------------------------------------------------------------------------
(* C11: unknown characters *)

\* the events of the converter that runs, the regex converter included
EventsNow == IF pc \in {"jpw2xml", "regex"} THEN voice_events ELSE notes

\* the parse of any of the three converters has gone through the input
AllParsed == Parsed \/ RegexDone

\* the event is a note or a rest, and its degree digit ("0" for a rest)
IsNoteOrRest(e) ==
    IF pc \in {"jpw2xml", "regex"} THEN e.type \in {"note", "rest"} ELSE e.kind = "note"

DegreeOf(e) ==
    CASE pc = "regex" -> e.note_num
      [] pc = "jpw2xml" -> IF e.type = "rest" THEN "0" ELSE e.jpw_num
      [] OTHER -> CASE e.base_note = "c" -> "1" [] e.base_note = "d" -> "2"
                    [] e.base_note = "e" -> "3" [] e.base_note = "f" -> "4"
                    [] e.base_note = "g" -> "5" [] e.base_note = "a" -> "6"
                    [] e.base_note = "b" -> "7" [] e.base_note = "r" -> "0"

\* the degrees of the notes and rests of an event sequence, in order
Degrees(ev) ==
    LET sel == SelectSeq(ev, IsNoteOrRest)
    IN  [k \in 1..Len(sel) |-> DegreeOf(sel[k])]

\* the line with every "?" replaced by a blank
Blanked(l) == [k \in 1..Len(l) |-> IF l[k] = "?" THEN " " ELSE l[k]]

\* C11: the unknown character "?" never stops a parse, and the notes and rests
\* of a line have the degrees, in the order, of the same line with a blank in
\* place of every "?": "1?2" gives the notes of "1 2", in all three converters.
C11_UnknownSkipped ==
    AllParsed => Degrees(EventsNow) = Degrees(EventsOf(Blanked(voice_lines[1])))

\* C11, a run of it: "1?2" has been parsed to two events
C11_Witness ==
    /\ AllParsed
    /\ voice_lines = << <<"1", "?", "2">> >>
    /\ Degrees(EventsNow) = <<"1", "2">>

---------------------------------------------------------------------------
(* C12: duration fallback *)

\* whole, half, quarter, eighth, 16th, 32nd
StandardBases == {Beat(4, 1), Beat(2, 1), Beat(1, 1), Beat(1, 2), Beat(1, 4), Beat(1, 8)}

\* beats is within 0.01 of a standard base with zero, one or two dots
MatchesStandard(beats) ==
    \E base \in StandardBases :
        \/ Within(beats, base, 100)
        \/ Within(beats, (base * 3) \div 2, 100)
        \/ Within(beats, (base * 7) \div 4, 100)

\* C12: a beat value that matches no standard base with zero, one or two dots
\* is reported as a quarter without dots by beats_to_musicxml_duration and as
\* "4" by calculate_lily_duration_from_jpw.
\* beats_to_musicxml_duration has no fallback: it answers with the nearest
\* candidate, however far, so 5 beats is a whole note.
C12_FallbackQuarter ==
    LET beats == calculate_beats_from_jpw(args.u_count, args.h_count, args.dot)
    IN  ~MatchesStandard(beats) =>
            /\ result.fn = "beats_to_musicxml_duration" =>
                  (result.xml_type = "quarter" /\ result.dots = 0)
            /\ result.fn = "calculate_lily_duration_from_jpw" => result.dur = "4"

---------------------------------------------------------------------------
(* C14: positive durations *)

\* C14: every resolved duration is above zero: the beats, the ticks
\* int(round(beats * 24)) of jpw2xml.py and the divisions total_duration of
\* duration_to_musicxml.
\* Three underscores are 0.5 division in duration_to_musicxml, and
\* int(round(0.5)) is 0.
C14_PositiveDuration ==
    /\ result.fn \in {"calculate_beats_from_jpw", "beats_to_musicxml_duration"} =>
          result.beats > 0
    /\ result.fn = "beats_to_musicxml_duration" => result.xml_duration > 0
    /\ result.fn = "duration_to_musicxml" => result.total_duration > 0

---------------------------------------------------------------------------
(* C13: tuplet membership flags *)

\* the elements that a step adds to the measure
AddedElements(old, new) == SubSeq(new, Len(old) + 1, Len(new))

IsTupletMember(e) == e.type \in {"note", "rest"} /\ e.tuplet # "none"

\* the members of one tuplet group: the first is flagged start, the last stop,
\* the ones between continue
FlaggedAsGroup(members) ==
    \A k \in 1..Len(members) :
        /\ (k = 1) <=> (members[k].tuplet = "start")
        /\ (k = Len(members)) <=> (members[k].tuplet = "stop")
        /\ (1 < k /\ k < Len(members)) <=> (members[k].tuplet = "continue")

\* C13: the members that a step of create_musicxml emits for a tuplet group
\* are flagged start (the first), stop (the last) and continue (between), so
\* that every group has one start and one stop, a group of one member included.
\* The flag is "start" if is_first else "stop" if is_last (line 280): the only
\* member of a group is flagged start, and the group has no stop.
C13_TupletFlags ==
    [][LET added == AddedElements(voice_events, voice_events')
       IN  (pc = "regex" /\ added # <<>> /\ IsTupletMember(added[1])) =>
               /\ FlaggedAsGroup(added)
               /\ Cardinality({k \in 1..Len(added) : added[k].tuplet = "start"}) = 1
               /\ Cardinality({k \in 1..Len(added) : added[k].tuplet = "stop"}) = 1]_vars

---------------------------------------------------------------------------
(* C15: tuplet without a ratio digit *)

\* the measure opens a tuplet whose ratio digit is missing or is no digit,
\* and closes it
GarbledTuplet(m) ==
    /\ Len(m) >= 4
    /\ m[1] = "{" /\ m[2] = "("
    /\ \/ m[3] = "}"
       \/ ~IsDigit(m[3]) /\ m[4] = "}"
    /\ Find(m, ")", 3) # -1

\* the same measure with the ratio digit 3
WithRatioThree(m) ==
    <<"{", "(", "3", "}">> \o SubSeq(m, IF m[3] = "}" THEN 4 ELSE 5, Len(m))

\* C15: a tuplet whose ratio digit is missing or garbled is parsed as the
\* tuplet 3:2, that is, as the same measure with the ratio digit 3.
\* note_pattern demands (\d+) between "{(" and "}", so such a marker matches
\* nothing: its characters are skipped one by one and the content is parsed
\* as ordinary notes.
C15_DefaultRatio ==
    (RegexDone /\ GarbledTuplet(voice_lines[1])) =>
        voice_events = RunRegex(WithRatioThree(voice_lines[1]), 0)

---------------------------------------------------------------------------
(* C16: the scan loops terminate *)

PushbackAlphabet == {"1", "?", " ", "(", ")", "|", "{", "}", "$", "_"}

InitPushback == InitScan(PushbackAlphabet, MaxLineLen)

\* the loops run until they return: a loop that can take a step takes it
SpecTermination == InitPushback /\ [][ScanNext]_vars /\ WF_vars(ScanNext)

\* a note has been started and is not yet appended to the events
NotePending ==
    IF pc = "jpw2xml" THEN current_note_attrs.jpw_num # "None"
    ELSE current_note # NoNote

\* a pass of a scan loop over the character At(line, i)
LoopPass == Scanning /\ line_idx' = line_idx

\* the cursor moves forward
CursorAdvances == i' > i

\* the pass finalizes the pending note and leaves the character to be
\* processed again by the next pass, which finds no pending note
Pushback == i' = i /\ NotePending /\ ~NotePending'

\* C16: every pass of a scan loop moves the cursor forward, except a pushback,
\* which happens at most once per character (it needs a pending note and
\* leaves none); hence each loop reaches the end of its input and the parse
\* returns its events.
C16_Terminates ==
    /\ [][LoopPass => (CursorAdvances \/ Pushback)]_vars
    /\ <>Parsed

\* the pass before this state has pushed back the "?" that follows a note
C16_Witness ==
    /\ Scanning /\ i = 1
    /\ At(line, 0) = "1" /\ At(line, 1) = "?"
    /\ ~NotePending
    /\ Len(Events) = 1 /\ IsNoteEvent(Events[1])

---------------------------------------------------------------------------
(* C17: the note after "(" starts the slur *)

\* the number of digits among the first k characters of l
DigitsUpTo(l, k) == Cardinality({j \in 1..k : IsDigit(l[j])})

\* l[p] is "(" and l[d] is the first digit after it, only blanks between
OpensSlurOn(l, p, d) ==
    /\ p < d /\ l[p] = "(" /\ IsDigit(l[d])
    /\ \A j \in (p + 1)..(d - 1) : IsSpace(l[j])

\* C17: when the parse of a line of digits, blanks and parentheses has
\* returned, the note of the first digit after a "(" has slur_start, also
\* when blanks stand between the "(" and the digit.  (On such a line every
\* digit gives one note event, in order.)
\* In jpw2ly.py a blank met while no note is active clears is_inside_slur
\* (lines 201-203), so the note of "( 1" has no slur_start there.
C17_SlurStartAfterOpen ==
    Parsed =>
        \A p, d \in 1..Len(voice_lines[1]) :
            OpensSlurOn(voice_lines[1], p, d) =>
                LET n == DigitsUpTo(voice_lines[1], d)
                IN  /\ n <= Len(Events)
                    /\ IsNoteEvent(Events[n])
                    /\ Events[n].slur_start

---------------------------------------------------------------------------
(* C18: ":|" and the alternative scope *)

ClosesScope(token) == token = <<":", "|">> \/ token = <<"|", "]">>

\* before the k-th token an alternative has been opened and no ":|" or "|]"
\* has come since
ScopeOpenBefore(tokens, k) ==
    \E j \in 1..(k - 1) :
        /\ AltMatch(tokens[j])
        /\ \A m \in (j + 1)..(k - 1) : ~ClosesScope(tokens[m])

\* C18: what parse_bars returns for ":|" closes a scope (ends in "}") exactly
\* when an alternative has been opened and not yet closed by an earlier ":|"
\* or "|]"; otherwise it is the backward repeat alone.
\* parse_bars never clears alternative_opened, so once an alternative has
\* been opened every later ":|" returns the closing brace.
C18_CloseOnlyIfOpen ==
    \A k \in 1..Len(bar_tokens) :
        (pc \in {"parse_bars", "ly_done"} /\ bar_tokens[k] = <<":", "|">>) =>
            /\ notes[k].kind = "str"
            /\ IF ScopeOpenBefore(bar_tokens, k)
               THEN notes[k].text = "\\bar \":|.\" }"
               ELSE notes[k].text = "\\bar \":|.\" "

---------------------------------------------------------------------------
(* C19: the two spellings of the alternative opener *)

VoltaSpellings == { <<"|", "|", "[", "1">>, <<"|", "[", "1">> }

\* the first event opens the alternative bracket: in jpw2ly the string that
\* parse_bars returns for the first opener, in jpw2xml the barline event that
\* carries the opener as its style
OpensAlternative(e) ==
    IF pc = "jpw2xml"
    THEN e.type = "barline" /\ IsVoltaToken(e.style)
    ELSE e.kind = "str" /\ e.text = "\\repeat volta 2 { \\alternative { {"

\* C19: when the parse of a line that is "||[1" or "|[1" has returned, the
\* line was lexed as one token, an alternative opener, and its only event
\* opens the alternative bracket.
\* Both lexers test for a second "|" before they test for "[" (jpw2ly.py
\* lines 221-224, jpw2xml.py lines 317-322): "||[1" is lexed as the double
\* bar "||", then "[" as a token of its own, then the note 1.
C19_VoltaOpenerLexed ==
    (Parsed /\ voice_lines[1] \in VoltaSpellings) =>
        /\ Len(bar_tokens) = 1
        /\ IsVoltaToken(bar_tokens[1])
        /\ Len(Events) = 1
        /\ OpensAlternative(Events[1])

---------------------------------------------------------------------------
(* C20: bar characters inside a slur *)

BarLeadChars == {"|", ":", "["}

\* the character at 0-based position k of l stands between a "(" and the
\* next ")" after that "(", and no directive or decoration starts before it
InsideSlur(l, k) ==
    /\ \E p \in 0..(k - 1) :
          /\ At(l, p) = "("
          /\ \A j \in (p + 1)..(k - 1) : At(l, j) # ")"
    /\ \E q \in (k + 1)..(Len(l) - 1) : At(l, q) = ")"
    /\ \A j \in 0..(k - 1) : At(l, j) \notin {"$", "{"}

IsBarEvent(e) == IF pc = "jpw2xml" THEN e.type = "barline" ELSE e.kind = "str"

\* C20: a pass of a scan loop over a bar-lead character that stands between
\* a "(" and the next ")" of the line appends no barline event.
\* jpw2xml.py has no test of the slur state on its bar branches (lines
\* 287-290, 299-301): "(|)" gives a barline there.  In jpw2ly.py a blank or
\* an unknown character clears is_inside_slur (lines 195-203), after which
\* the bar character of "( |)" is a barline.
C20_NoBarlineInSlur ==
    [][(LoopPass /\ At(line, i) \in BarLeadChars /\ InsideSlur(line, i)) =>
           \A k \in 1..Len(AddedElements(Events, Events')) :
               ~IsBarEvent(AddedElements(Events, Events')[k])]_vars

---------------------------------------------------------------------------
(* C21: an explicit accidental is one semitone *)

\* the pitch of a resolved (step, alter, octave) in semitones
Semitones(p) == p.octave * 12 + note_map(p.step) + p.alter

\* the same degree in the same key and octave without a prefix
Unprefixed ==
    LET key == get_key_info(args.key_str)
    IN  jpw_pitch_to_musicxml(args.jpw_num, args.oct_mod, "",
                              key.key_root_midi, key.key_mode)

\* C21: the pitch that jpw_pitch_to_musicxml returns with prefix "#" is one
\* semitone above the pitch it returns with no prefix, and with prefix "b" one
\* semitone below, for every degree, key and octave mark.
\* The octave is taken from the diatonic note and the pitch class from the
\* altered note (lines 114-119): "#" on a B gives the C of the same octave,
\* eleven semitones below, and "b" on a C the B eleven semitones above.
C21_AccidentalSemitone ==
    (result.fn = "jpw_pitch_to_musicxml" /\ ~result.pitch.is_none) =>
        Semitones(result.pitch) =
            Semitones(Unprefixed)
              + (IF args.prefix = "#" THEN 1 ELSE IF args.prefix = "b" THEN -1 ELSE 0)

---------------------------------------------------------------------------
(* Lines with a decoration or a directive *)

\* most characters before the separator of a marked-up line
MaxHeadLen == 2

\* most characters after the decoration or directive
MaxTailLen == 1

HeadAlphabet == {"1", "_"}

TailAlphabet == {"1", "_", "-"}

Directives ==
    { <<"$", "(", "x", ")">>, <<"$", "(", "1", "|", ")">>, <<"$", "(", ")">> }

Decorations ==
    { <<"{">> \o ZhongYin \o <<"}">>, <<"{">> \o BoYin \o <<"}">>, <<"{", "x", "}">> }

\* what may finalize the note before the decoration or directive
MarkupSeparators == { <<>>, <<"|">>, <<")">>, <<" ">>, <<"(">>, <<"$", "(", "x", ")">> }

\* head, separator, a decoration or directive, tail
MarkupLines ==
    { head \o sep \o markup \o tail :
        head \in Lines(HeadAlphabet, MaxHeadLen), sep \in MarkupSeparators,
        markup \in Decorations \cup Directives,
        tail \in Lines(TailAlphabet, MaxTailLen) }

InitMarkup ==
    /\ pc \in {"jpw2ly", "jpw2xml"}
    /\ voice_lines \in {<<l>> : l \in MarkupLines}
    /\ InitParserVars
    /\ args = NoCall /\ result = NoCall

\* the two scanners on lines with a decoration or a directive
SpecMarkup == InitMarkup /\ [][ScanNext]_vars

---------------------------------------------------------------------------
(* C22: a decoration goes to the last note *)

\* the note events among the events
NoteEvents == SelectSeq(Events, IsNoteEvent)

\* the 0-based position of the first "{" of l, which opens a recognized
\* decoration that is closed
RecognizedAt(l, p, name) ==
    /\ Find(l, "{", 0) = p
    /\ Find(l, "}", p) = p + Len(name) + 1
    /\ Slice(l, p + 1, p + Len(name) + 1) = name

\* no directive before position p
NoDirectiveBefore(l, p) == \A j \in 0..(p - 1) : At(l, j) # "$"

\* C22: when jpw2ly has parsed a line whose first decoration is {ZhongYin} or
\* {BoYin}, the note of the last digit before the "{" carries accent or prall,
\* also when a barline, a ")" that closes a slur or a "(" has finalized that
\* note before the "{".
\* The flag is set on current_note only (lines 140-142): once the note has
\* been finalized current_note is None and the decoration is dropped.
C22_DecorationOnLastNote ==
    (Parsed /\ pc # "jpw2xml") =>
        \A p \in 0..(Len(voice_lines[1]) - 1) :
            LET l == voice_lines[1]
                n == DigitsUpTo(l, p)
            IN  (n > 0 /\ NoDirectiveBefore(l, p)) =>
                    /\ RecognizedAt(l, p, ZhongYin) => NoteEvents[n].accent
                    /\ RecognizedAt(l, p, BoYin) => NoteEvents[n].prall

---------------------------------------------------------------------------
(* C23: a directive finalizes the pending note *)

\* the 0-based position of the first "$(" of l, or -1
RECURSIVE DirectiveStart(_, _)
DirectiveStart(l, from) ==
    IF from + 1 >= Len(l) THEN -1
    ELSE IF StartsWith2(l, from, "$", "(") THEN from
    ELSE DirectiveStart(l, from + 1)

\* l is text without decoration, then a closed directive, then nothing but
\* modifier characters
DirectiveThenModifiers(l) ==
    LET p == DirectiveStart(l, 0)
        q == Find(l, ")", p)
    IN  /\ p # -1 /\ q # -1
        /\ \A j \in 1..Len(l) : l[j] # "{"
        /\ \A j \in (q + 1)..(Len(l) - 1) : At(l, j) \in {"_", "-"}

\* the text before the first directive of l
BeforeDirective(l) == Slice(l, 0, DirectiveStart(l, 0))

\* C23: the events of a line that ends with a directive and modifier
\* characters are the events of the text before the directive: the directive
\* and its content give no event, and the modifiers after its ")" do not
\* reach the note whose digit stands before it, in jpw2ly and in jpw2xml.
\* jpw2xml.py jumps over the directive without finalizing (lines 260-263):
\* the note of "1$(x)_" is still pending after the ")", and the "_" halves it.
C23_DirectiveFinalizes ==
    (Parsed /\ DirectiveThenModifiers(voice_lines[1])) =>
        Events = EventsOf(BeforeDirective(voice_lines[1]))

---------------------------------------------------------------------------
(* C24: the tuplet ratio scales the duration *)

\* m opens with the tuplet marker "{(N}", N one digit, and closes it
WellFormedTuplet(m) ==
    /\ Len(m) >= 5
    /\ m[1] = "{" /\ m[2] = "(" /\ IsDigit(m[3]) /\ m[4] = "}"
    /\ Find(m, ")", 4) # -1

\* the content of the tuplet that opens m
ContentOf(m) == Slice(m, 4, Find(m, ")", 4))

\* d is the duration plain scaled by normal/actual, rounded to a division
ScaledBy(d, plain, actual, normal) ==
    LET diff == d * actual - plain * normal
    IN  2 * (IF diff < 0 THEN -diff ELSE diff) <= actual

\* C24: a member of a tuplet actual:normal is emitted with the duration that
\* the same note has outside the tuplet times normal/actual (to the nearest
\* division), and with the same type.
\* create_musicxml writes the duration that duration_to_musicxml returns
\* (lines 259 and 266) and adds the time-modification only: a quarter in a
\* triplet keeps its 4 divisions.
C24_TupletScalesDuration ==
    (RegexDone /\ WellFormedTuplet(voice_lines[1])) =>
        LET members == SelectSeq(voice_events, IsTupletMember)
            plain == RunRegex(ContentOf(voice_lines[1]), 0)
        IN  /\ Len(members) = Len(plain)
            /\ \A k \in 1..Len(members) :
                  /\ members[k].note_type = plain[k].note_type
                  /\ ScaledBy(members[k].duration, plain[k].duration,
                              members[k].actual_notes, members[k].normal_notes)

---------------------------------------------------------------------------
(* C25: the accumulators are reset *)

\* octave offset, halving count, extension count and dot flag are at their
\* defaults
AccumulatorsAtDefault ==
    IF pc = "jpw2xml"
    THEN /\ current_note_attrs.oct_mod = 0 /\ current_note_attrs.u_count = 0
         /\ current_note_attrs.h_count = 0 /\ current_note_attrs.dot = FALSE
    ELSE o_mod = 0 /\ u_count = 0 /\ h_count = 0 /\ dot = FALSE

\* the pass starts a note: a note is pending after it that was not pending
\* before it (none was, or the one that was has been appended)
StartsNote ==
    /\ LoopPass
    /\ NotePending'
    /\ ~NotePending \/ Len(Events') > Len(Events)

\* C25: in every state of either parser with no pending note the accumulators
\* are at their defaults, and so they are after every pass that starts a
\* note: the modifiers of an earlier note never reach a later one.
C25_AccumulatorsReset ==
    /\ []((pc \in {"jpw2ly", "jpw2xml", "ly_done"} /\ ~NotePending) =>
              AccumulatorsAtDefault)
    /\ [][StartsNote => AccumulatorsAtDefault']_vars

\* a dotted note has been finalized by the "(" after it, and no note is pending
C25_Witness ==
    /\ pc \in {"jpw2ly", "jpw2xml"} /\ line_idx = 0 /\ i = 3
    /\ voice_lines = << <<"1", ".", "(">> >>
    /\ ~NotePending
    /\ Len(Events) = 1 /\ IsNoteEvent(Events[1])
    /\ AccumulatorsAtDefault

---------------------------------------------------------------------------
(* C26: what an alternative opener consumes *)

\* l is the opener "|[1", a blank, and then digits and blanks only
OpenerThenNotes(l) ==
    /\ Len(l) >= 4
    /\ SubSeq(l, 1, 3) = <<"|", "[", "1">>
    /\ l[4] = " "
    /\ \A k \in 5..Len(l) : IsDigit(l[k]) \/ l[k] = " "

\* C26: the opener token of a line "|[1 ..." is "|[1" alone (blanks aside),
\* and every degree digit after it on the line gives a note event, in both
\* parsers.
\* The opener is matched with r"\|\|?\[(\d+)\.?.*" and the whole match is the
\* token (jpw2ly.py lines 225-229, jpw2xml.py lines 322-323): the ".*" takes
\* the rest of the line, and the digits in it are never parsed.
C26_OpenerConsumesItself ==
    (Parsed /\ OpenerThenNotes(voice_lines[1])) =>
        /\ Strip(bar_tokens[1]) = <<"|", "[", "1">>
        /\ Len(NoteEvents) = DigitsUpTo(voice_lines[1], Len(voice_lines[1])) - 1

---------------------------------------------------------------------------
(* C27: the degree named by the key string *)

\* the pitch class, 0..11, of a resolved pitch
PitchClass(p) == (note_map(p.step) + p.alter) % 12

\* the pitch class X that the key string "D=X" names
NamedPitchClass(key_str) ==
    (note_map(Upper(key_str[3]))
       + (IF Len(key_str) >= 4 /\ key_str[4] = "#" THEN 1
          ELSE IF Len(key_str) >= 4 /\ key_str[4] = "b" THEN -1 ELSE 0)) % 12

\* jpw_pitch_to_musicxml was called on a degree with no accidental and no
\* octave mark, in a key "1=X" or "6=X"
PlainDegreeInKey ==
    /\ result.fn = "jpw_pitch_to_musicxml" /\ ~result.pitch.is_none
    /\ args.prefix = "" /\ args.oct_mod = 0
    /\ args.key_str[1] \in {"1", "6"}

\* C27: in a key "D=X" the degree D resolves to the pitch class X, and in the
\* key "6=A" the degree 1 resolves to C.
\* For "6=X" get_key_info returns X as the root with the minor mode, and
\* get_diatonic_pitch counts the degrees from that root (minor_intervals[0]
\* is degree 1): in "6=A" degree 1 is A and degree 6 is F.
C27_KeyDegree ==
    PlainDegreeInKey =>
        /\ args.jpw_num = args.key_str[1] =>
              PitchClass(result.pitch) = NamedPitchClass(args.key_str)
        /\ (args.key_str = <<"6", "=", "A">> /\ args.jpw_num = "1") =>
              PitchClass(result.pitch) = 0

---------------------------------------------------------------------------
(* jpw2xml.py: JpwToMusicXml.build_musicxml, the slur elements *)

\* most events of a sequence handed to build_musicxml
MaxEvents == 4

\* the events of parse_jpw_voice_section that matter to the slurs: notes with
\* their two flags, and rests
SlurEvents ==
    { [type |-> "note", beats |-> Beat(1, 1), jpw_num |-> "1", oct_mod |-> 0,
       prefix |-> "", slur_start |-> a, slur_end |-> b] : a, b \in BOOLEAN }
    \cup { [type |-> "rest", beats |-> Beat(1, 1)] }

\* slur_counter = 0; active_slurs = {} (lines 350-352), before the first event
BuildStart ==
    [fn |-> "build_musicxml", next |-> 1, slur_counter |-> 0,
     active_slurs |-> {}, slurs |-> <<>>]

\* the slur handling of one note event (lines 406-418): b is the state of the
\* loop, the result is the state after the event
HandleSlurs(b, event) ==
    LET started ==
            IF event.slur_start
            THEN [b EXCEPT !.slur_counter = @ + 1,
                           !.slurs = Append(@, [type |-> "start",
                                                number |-> b.slur_counter + 1]),
                           !.active_slurs = @ \cup {b.slur_counter + 1}]
            ELSE b
    IN  IF event.slur_end /\ started.slur_counter \in started.active_slurs
        THEN [started EXCEPT !.slurs = Append(@, [type |-> "stop",
                                                  number |-> started.slur_counter]),
                             !.active_slurs = @ \ {started.slur_counter}]
        ELSE started

\* one pass of "for event in self.voice_events" (lines 353-447)
BuildEvent ==
    /\ pc = "build"
    /\ result.next <= Len(voice_events)
    /\ LET event == voice_events[result.next]
           b == IF event.type = "note" THEN HandleSlurs(result, event) ELSE result
       IN  result' = [b EXCEPT !.next = @ + 1]
    /\ UNCHANGED callUnchanged

InitBuild ==
    /\ pc = "build"
    /\ voice_lines = <<>>
    /\ line_idx = 0 /\ i = 0
    /\ notes = <<>> /\ current_note = NoNote
    /\ o_mod = 0 /\ u_count = 0 /\ h_count = 0 /\ dot = FALSE
    /\ in_special = FALSE /\ special_content = <<>> /\ in_dollar = FALSE
    /\ is_inside_slur = FALSE
    /\ alternative_opened = FALSE /\ alternative_closing_needed = 0
    /\ bar_tokens = <<>> /\ closing_line = 0
    /\ current_note_attrs = EmptyAttrs
    /\ voice_events \in UNION {[1..n -> SlurEvents] : n \in 0..MaxEvents}
    /\ args = NoCall
    /\ result = BuildStart

\* build_musicxml on every sequence of notes and rests
SpecBuild == InitBuild /\ [][BuildEvent]_vars

\* build_musicxml has gone through the events
Built == pc = "build" /\ result.next = Len(voice_events) + 1

---------------------------------------------------------------------------
(* C28: one stop per slur start *)

\* the slur marks of an event sequence in order: 1 for a slur_start, -1 for a
\* slur_end, the start of a note before its end
RECURSIVE SlurMarks(_)
SlurMarks(events) ==
    IF events = <<>> THEN <<>>
    ELSE LET e == Head(events)
         IN  (IF e.type = "note" /\ e.slur_start THEN <<1>> ELSE <<>>)
               \o (IF e.type = "note" /\ e.slur_end THEN <<-1>> ELSE <<>>)
               \o SlurMarks(Tail(events))

RECURSIVE SumOf(_)
SumOf(marks) == IF marks = <<>> THEN 0 ELSE Head(marks) + SumOf(Tail(marks))

\* every slur_end closes a slur that is open, and none stays open
BalancedNested(events) ==
    LET marks == SlurMarks(events)
    IN  /\ SumOf(marks) = 0
        /\ \A k \in 1..Len(marks) : SumOf(SubSeq(marks, 1, k)) >= 0

\* the k-th slur element is a stop whose number was started before it and has
\* not been stopped since
StopsOpenSlur(slurs, k) ==
    \E j \in 1..(k - 1) :
        /\ slurs[j].type = "start" /\ slurs[j].number = slurs[k].number
        /\ \A m \in (j + 1)..(k - 1) :
              ~(slurs[m].type = "stop" /\ slurs[m].number = slurs[k].number)

\* C28: when build_musicxml has gone through events whose slur flags are
\* balanced and nested, it has emitted as many slur stops as slur starts, and
\* every stop carries the number of a slur that is open.
\* A stop is numbered slur_counter, which is never decremented (lines
\* 416-419): after start, start, end the second end finds slur 2 closed and
\* emits nothing, and slur 1 is never stopped.
C28_OneStopPerStart ==
    (Built /\ BalancedNested(voice_events)) =>
        /\ Cardinality({k \in 1..Len(result.slurs) : result.slurs[k].type = "stop"})
             = Cardinality({k \in 1..Len(result.slurs) : result.slurs[k].type = "start"})
        /\ \A k \in 1..Len(result.slurs) :
              result.slurs[k].type = "stop" => StopsOpenSlur(result.slurs, k)

---------------------------------------------------------------------------
(* midi2jpw.py: MidiToJpw.parse, from the sorted notes to the tokens *)

\* most notes of a track
MaxNotes == 3

\* last tick of a track
MaxTick == 4

\* self.ticks_per_beat as read from the file (mid.ticks_per_beat)
ticks_per_beat == 2

\* get_beats_from_ticks(ticks, ticks_per_beat), ticks_per_beat not 0
get_beats_from_ticks(ticks, tpb) == (ticks * Den) \div tpb

\* SCALE_CMAJ.get(note_in_octave); "None" is the dict's miss
SCALE_CMAJ(n) ==
    CASE n = 0 -> "1" [] n = 2 -> "2" [] n = 4 -> "3" [] n = 5 -> "4"
      [] n = 7 -> "5" [] n = 9 -> "6" [] n = 11 -> "7" [] OTHER -> "None"

\* midi_note_to_jpw_simple(midi_note_num): (jpw_num, jpw_octave_mod, jpw_prefix)
midi_note_to_jpw_simple(midi_note_num) ==
    IF ~(0 <= midi_note_num /\ midi_note_num <= 127) THEN <<"1", 0, "">>
    ELSE LET octave == midi_note_num \div 12
             note_in_octave == midi_note_num % 12
             num_prefix ==
                 IF SCALE_CMAJ(note_in_octave) # "None"
                 THEN <<SCALE_CMAJ(note_in_octave), "">>
                 ELSE IF SCALE_CMAJ(note_in_octave - 1) # "None"
                 THEN <<SCALE_CMAJ(note_in_octave - 1), "#">>
                 ELSE IF SCALE_CMAJ(note_in_octave + 1) # "None"
                 THEN <<SCALE_CMAJ(note_in_octave + 1), "b">>
                 ELSE <<"1", "">>
         IN  <<num_prefix[1], octave - 5, num_prefix[2]>>

\* the tracks: notes in the order of their start, none starting before the
\* one before it has ended; a note may have no duration
TrackNotes == [pitch : {60, 61}, start : 0..MaxTick, end : 0..MaxTick]

IsMonophonic(track) ==
    /\ \A k \in 1..Len(track) : track[k].start <= track[k].end
    /\ \A k \in 1..(Len(track) - 1) :
          /\ track[k].start <= track[k + 1].start
          /\ track[k].end <= track[k + 1].start

\* last_note_end_tick = 0 (line 182), and self.jpw_voice_tokens is empty
MidiStart ==
    [fn |-> "MidiToJpw.parse", next |-> 1, last_note_end_tick |-> 0,
     jpw_voice_tokens |-> <<>>]

\* the rest token before a note (lines 190-197), with the ticks that it spans
\* (line 198 prints them)
RestToken(last_note_end_tick, start_tick) ==
    LET mods == calculate_jpw_modifiers_from_beats(
                    get_beats_from_ticks(start_tick - last_note_end_tick, ticks_per_beat))
    IN  [kind |-> "rest", u_count |-> mods[1], h_count |-> mods[2], dot |-> mods[3],
         from |-> last_note_end_tick, to |-> start_tick]

\* the token of a note (lines 206-217)
NoteToken(note) ==
    LET mods == calculate_jpw_modifiers_from_beats(
                    get_beats_from_ticks(note.end - note.start, ticks_per_beat))
        p == midi_note_to_jpw_simple(note.pitch)
    IN  [kind |-> "note", num |-> p[1], oct_mod |-> p[2], prefix |-> p[3],
         u_count |-> mods[1], h_count |-> mods[2], dot |-> mods[3],
         from |-> note.start, to |-> note.end]

\* one pass of "for note in notes_in_track" (lines 183-221)
MidiNote ==
    /\ pc = "midi"
    /\ result.next <= Len(args.notes_in_track)
    /\ LET note == args.notes_in_track[result.next]
           rest_ticks == note.start - result.last_note_end_tick
           rested == IF rest_ticks * 20 > ticks_per_beat
                     THEN [result EXCEPT !.jpw_voice_tokens =
                              Append(@, RestToken(result.last_note_end_tick, note.start))]
                     ELSE result
       IN  result' =
             IF note.end - note.start <= 0
             THEN [rested EXCEPT !.next = @ + 1]        \* continue
             ELSE [rested EXCEPT !.next = @ + 1,
                                 !.jpw_voice_tokens = Append(@, NoteToken(note)),
                                 !.last_note_end_tick = note.end]
    /\ UNCHANGED callUnchanged

InitMidi ==
    /\ pc = "midi"
    /\ voice_lines = <<>>
    /\ InitParserVars
    /\ args \in { [fn |-> "MidiToJpw.parse", notes_in_track |-> track] :
                    track \in { t \in UNION {[1..n -> TrackNotes] : n \in 0..MaxNotes} :
                                  IsMonophonic(t) } }
    /\ result = MidiStart

\* the token loop of MidiToJpw.parse on every monophonic track
SpecMidi == InitMidi /\ [][MidiNote]_vars

\* the loop has gone through the notes
MidiDone == pc = "midi" /\ result.next = Len(args.notes_in_track) + 1

---------------------------------------------------------------------------
(* C29: one rest per gap *)

IsSounding(note) == note.end > note.start

\* the p-th and the q-th note sound, and no note between them does
ConsecutiveSounding(track, p, q) ==
    /\ p < q /\ IsSounding(track[p]) /\ IsSounding(track[q])
    /\ \A m \in (p + 1)..(q - 1) : ~IsSounding(track[m])

\* the rest tokens that lie in the ticks from lo to hi
RestsWithin(tokens, lo, hi) ==
    {k \in 1..Len(tokens) :
        tokens[k].kind = "rest" /\ lo <= tokens[k].from /\ tokens[k].to <= hi}

\* C29: when the loop has gone through a monophonic track, the gap between
\* the end of a sounding note and the start of the next sounding note holds
\* at most one rest token, notes of no duration included.
\* The rest before a note is appended before the test of its duration (lines
\* 190-197, 202-204), and the "continue" of a note of no duration skips the
\* update of last_note_end_tick: the next note measures its rest from the
\* same tick again.
C29_OneRestPerGap ==
    MidiDone =>
        \A p, q \in 1..Len(args.notes_in_track) :
            ConsecutiveSounding(args.notes_in_track, p, q) =>
                Cardinality(RestsWithin(result.jpw_voice_tokens,
                                        args.notes_in_track[p].end,
                                        args.notes_in_track[q].start)) <= 1

---------------------------------------------------------------------------
(* exl2xml.py: fix_transpose_key_rebuild_measure1, the notes of measure 1 *)

\* most <note> elements of measure 1
MaxMeasureNotes == 4

\* old_note.find(tag) found nothing
NoElem == [tag |-> "none"]

\* a <pitch> with its children <step> and <octave>
PitchElem(step, octave) ==
    [tag |-> "pitch", children |-> 2, step |-> step, octave |-> octave]

\* <rest/>, and a <rest> with <display-step> and <display-octave>
RestElems == { [tag |-> "rest", children |-> 0], [tag |-> "rest", children |-> 2] }

\* the <note> elements of the original measure: what find('pitch'),
\* find('rest'), find('duration') and find('type') give on each
OriginalNotes ==
    [pitch : {NoElem, PitchElem("C", 4), PitchElem("B", 5)},
     rest : {NoElem} \cup RestElems,
     duration : {NoElem, [tag |-> "duration", text |-> "2"]},
     type : {NoElem, [tag |-> "type", text |-> "eighth"]}]

\* a <note> has a <pitch> or a <rest>, not both
IsNoteElem(n) == n.pitch = NoElem \/ n.rest = NoElem

\* the truth value of an Element in "if a or b": an element without children
\* is false, and so is None
Truthy(elem) == elem # NoElem /\ elem.children > 0

\* "Read original notes data" (lines 137-148)
RECURSIVE ReadNotes(_)
ReadNotes(original_notes_elems) ==
    IF original_notes_elems = <<>> THEN <<>>
    ELSE LET old_note == Head(original_notes_elems)
             pitch_elem == old_note.pitch
             rest_elem == IF old_note.pitch # NoElem THEN NoElem ELSE old_note.rest
             note_data == [pitch_elem |-> pitch_elem, rest_elem |-> rest_elem,
                           duration_elem |-> old_note.duration,
                           type_elem |-> old_note.type]
             kept == /\ Truthy(pitch_elem) \/ Truthy(rest_elem)
                     /\ old_note.duration # NoElem /\ old_note.type # NoElem
         IN  (IF kept THEN <<note_data>> ELSE <<>>)
               \o ReadNotes(Tail(original_notes_elems))

\* beamable_indices (lines 185-190), 0-based
BeamableIndices(original_notes_data) ==
    IF /\ Len(original_notes_data) > 3
       /\ \A k \in 2..4 : original_notes_data[k].type_elem.text = "eighth"
    THEN {1, 2, 3} ELSE {}

\* the <note> rebuilt from the i-th entry, i 0-based (lines 193-207): its
\* children in order
RebuiltNote(note_data, idx, beamable_indices) ==
    LET head ==
            IF note_data.rest_elem # NoElem THEN <<note_data.rest_elem>>
            ELSE IF note_data.pitch_elem # NoElem
            THEN LET stem_dir ==
                         IF note_data.pitch_elem.octave > 4
                            \/ (note_data.pitch_elem.octave = 4
                                /\ note_data.pitch_elem.step = "B")
                         THEN "down" ELSE "up"
                     beam == IF idx \notin beamable_indices THEN <<>>
                             ELSE <<[tag |-> "beam",
                                     text |-> IF idx = 1 THEN "begin"
                                              ELSE IF idx = 2 THEN "continue"
                                              ELSE "end"]>>
                 IN  <<note_data.pitch_elem, [tag |-> "voice", text |-> "1"],
                       [tag |-> "stem", text |-> stem_dir]>> \o beam
            ELSE <<>>
    IN  head \o <<note_data.duration_elem, note_data.type_elem>>

\* the loop that re-adds the notes (lines 192-209)
RebuildNotes(original_notes_data) ==
    [k \in 1..Len(original_notes_data) |->
        RebuiltNote(original_notes_data[k], k - 1,
                    BeamableIndices(original_notes_data))]

\* fix_transpose_key_rebuild_measure1 reads the notes of measure 1
CallReadNotes ==
    /\ pc = "exl2xml"
    /\ result = NoCall
    /\ result' = [fn |-> "read", original_notes_data |-> ReadNotes(args.notes)]
    /\ UNCHANGED callUnchanged

\* fix_transpose_key_rebuild_measure1 clears the measure and re-adds the notes
CallRebuildNotes ==
    /\ pc = "exl2xml"
    /\ result # NoCall /\ result.fn = "read"
    /\ result' = [fn |-> "rebuilt",
                  measure1 |-> RebuildNotes(result.original_notes_data)]
    /\ UNCHANGED callUnchanged

InitRebuild ==
    /\ pc = "exl2xml"
    /\ voice_lines = <<>>
    /\ InitParserVars
    /\ args \in { [fn |-> "fix_transpose_key_rebuild_measure1", notes |-> ns] :
                    ns \in UNION {[1..n -> {x \in OriginalNotes : IsNoteElem(x)}] :
                                    n \in 0..MaxMeasureNotes} }
    /\ result = NoCall

RebuildNext == CallReadNotes \/ CallRebuildNotes

\* the rebuild of measure 1 on every short sequence of <note> elements
SpecRebuild == InitRebuild /\ [][RebuildNext]_vars

---------------------------------------------------------------------------
(* C30: the rebuild keeps the notes *)

\* the <note> has a <pitch> or a <rest>, a <duration> and a <type>
HasContent(n) ==
    /\ n.pitch # NoElem \/ n.rest # NoElem
    /\ n.duration # NoElem /\ n.type # NoElem

\* pitch or rest, duration and type of an original <note>
ContentOfOriginal(n) ==
    <<IF n.pitch # NoElem THEN n.pitch ELSE n.rest, n.duration, n.type>>

\* pitch or rest, duration and type of a rebuilt <note>: its first and its
\* last two children
ContentOfRebuilt(children) ==
    <<children[1], children[Len(children) - 1], children[Len(children)]>>

RECURSIVE MapSeq(_, _)
MapSeq(Op(_), s) == IF s = <<>> THEN <<>> ELSE <<Op(Head(s))>> \o MapSeq(Op, Tail(s))

\* C30: the rebuilt measure 1 holds, in the original order, every original
\* <note> that has a <pitch> or a <rest> together with a <duration> and a
\* <type>, with the same pitch or rest, duration and type.
\* A note is kept "if note_data['pitch_elem'] or note_data['rest_elem']"
\* (line 144), and an Element without children is false: a note whose rest is
\* the usual empty <rest/> is not read and is missing from the rebuilt
\* measure.
C30_RebuildKeepsNotes ==
    (pc = "exl2xml" /\ result # NoCall /\ result.fn = "rebuilt") =>
        MapSeq(ContentOfRebuilt, result.measure1)
          = MapSeq(ContentOfOriginal, SelectSeq(args.notes, HasContent))

=============================================================================
